---------------------------- MODULE Spec2Model ----------------------------
(***************************************************************************)
(* A model of the two-panel traffic simulation: the traffic-light engine   *)
(* (src/src/utils/trafficLightManager.js), the vehicle engine              *)
(* (src/src/utils/carManager.js) and the per-frame driver of a panel       *)
(* (the Canvas component, src/unnamed/part_001).                           *)
(*                                                                         *)
(* Time is counted in integer units; HalfSecond of them make 0.5 s, the    *)
(* smallest duration the light engine compares a timer with.               *)
(***************************************************************************)
EXTENDS Integers, Sequences, FiniteSets, TLC

\* ------------------------------------------------------------------ bounds
\* model time units per half second
HalfSecond == 2
\* initial light timers are Math.random() * 2 seconds; the model draws 0..MaxJitter units
MaxJitter == 1
\* a frame's deltaTime ranges over 1..MaxDelta units (the light update does not cap it)
MaxDelta == 2
\* vehicles the smart evaluation finds approaching the intersection
MaxApproaching == 2
\* estimated arrival times range over 1..MaxEta
MaxEta == 2

\* -------------------------------------------------------- program constants
\* the editor refuses a street at a location that already has four
MaxStreets == 4

Null == "null"

Min(a, b) == IF a < b THEN a ELSE b
Max(a, b) == IF a > b THEN a ELSE b
Abs(a) == IF a < 0 THEN 0 - a ELSE a

RECURSIVE SumOver(_, _)
\* sum of f[x] over the finite set S
SumOver(f, S) ==
    IF S = {} THEN 0
    ELSE LET x == CHOOSE y \in S : TRUE IN f[x] + SumOver(f, S \ {x})

RECURSIVE MaxOver(_, _)
MaxOver(f, S) ==
    LET x == CHOOSE y \in S : TRUE
    IN IF S = {x} THEN f[x] ELSE Max(f[x], MaxOver(f, S \ {x}))

RECURSIVE MinOver(_, _)
MinOver(f, S) ==
    LET x == CHOOSE y \in S : TRUE
    IN IF S = {x} THEN f[x] ELSE Min(f[x], MinOver(f, S \ {x}))

VARIABLES
    trafficLights,     \* the panel's lights at one intersection, in array order
    isSmartControl,    \* the panel's mode: FALSE fixed timing, TRUE adaptive
    lastSmartUpdate,   \* time since the intersection's lastSmartUpdate stamp; -1 while unset
    smartDecision,     \* what the smart evaluation of the latest light update decided
    pendingForced,     \* history: the target of a forced switch that has not been green since,
                       \* and the number of light updates it has been waiting for
    pendingSwitch,     \* history: the latest switch decided while a phase was green: the
                       \* phase that was green, the target, the light updates since, and
                       \* whether the target has been green since
    stays,             \* history, fixed timing: per light, how long it has been in its
                       \* state and how long its previous state lasted
    streets,           \* the streets shared by both panels, in array order
    routingDecisions,  \* carManager's module-level cache: routing key -> decision
    lastRoute,         \* history: the latest call of findBestNextStreet and what it returned
    firstDecision,     \* history: per (vehicle group, location, previous street), what the
                       \* first call since the latest clear of the cache returned
    updateQueue,       \* the state updaters a frame has handed to React and React has not run
    carsSaw,           \* history: the light states the latest vehicle update was handed
    localCars,         \* the panel's vehicles, in array order
    lastTick,          \* history: the array the latest simulateTraffic call was given, its
                       \* deltaTime and random draws, and what updateCar decided per vehicle
    frames,            \* the number of vehicle updates so far
    globalCars,        \* App's cars: the vehicles as createCar returned them, in array order
    parkingLotCars,    \* per parking lot, the vehicles it has left to send out
    metrics,           \* the metrics the panel published last
    lastSpawn,         \* history: the latest createCar call of the panel and what it returned
    canvasLocations,   \* the locations on the canvas
    drawnStreets,      \* history: the ids of the streets drawn so far (an id is never reused)
    timers,            \* the setTimeout callbacks of the editor that have not run yet
    twins,             \* per panel, its copy of one global vehicle
    travelled,         \* history: per panel, the (street, direction) pairs its twin has
                       \* been on, in order
    heap,              \* the vehicle and light objects, by reference
    panelRefs,         \* per panel, the references in its localCars and trafficLights arrays
    appCars,           \* the references in App's cars array
    lastFrame,         \* history: the panel of the latest frame, heap and arrays before it
    writers            \* history: per piece of state shared by the panels, the panels
                       \* whose frames have changed it

lightVars == <<trafficLights, isSmartControl, lastSmartUpdate, smartDecision, pendingForced,
               pendingSwitch, stays>>
routeVars == <<streets, routingDecisions, lastRoute, firstDecision>>
tickVars == <<updateQueue, carsSaw>>
carVars == <<localCars, lastTick, frames, globalCars, parkingLotCars, metrics, lastSpawn>>
twinVars == <<twins, travelled>>
heapVars == <<heap, panelRefs, appCars, lastFrame, writers>>
panelVars == <<canvasLocations, drawnStreets, timers, twinVars, heapVars>>

\* an identifier is the sequence of the words and numbers the program joins with "-";
\* a null identifier prints as the word null in a template string
NullId == <<"null">>
NoStreet == [id |-> NullId, from |-> NullId, to |-> NullId]
\* findBestNextStreet's null result
NoRoute == [street |-> NoStreet, direction |-> "none", turn |-> "none"]
NoCall == [called |-> FALSE]

NoUpdates == [lights |-> FALSE, cars |-> FALSE, deltaTime |-> 0, approaching |-> <<>>]
NothingRead == [read |-> FALSE, states |-> <<>>]
NoTick == [ran |-> FALSE]
NoSpawn == [attempt |-> 0]
NoMetrics == [published |-> FALSE]

\* nothing is being edited
NoFrame == [ran |-> FALSE]

heapIdle ==
    /\ heap = <<>>
    /\ panelRefs = <<>>
    /\ appCars = <<>>
    /\ lastFrame = NoFrame
    /\ writers = <<>>

panelIdle ==
    /\ canvasLocations = {}
    /\ drawnStreets = {}
    /\ timers = {}
    /\ twins = <<>>
    /\ travelled = <<>>
    /\ heapIdle

\* a panel without vehicles
carsIdle ==
    /\ localCars = <<>>
    /\ lastTick = NoTick
    /\ frames = 0
    /\ globalCars = <<>>
    /\ parkingLotCars = <<>>
    /\ metrics = NoMetrics
    /\ lastSpawn = NoSpawn

\* no frame in progress, no vehicle on the canvas
tickIdle ==
    /\ updateQueue = NoUpdates
    /\ carsSaw = NothingRead
    /\ carsIdle
    /\ panelIdle

\* no street drawn, nothing routed yet
routeIdle ==
    /\ streets = <<>>
    /\ routingDecisions = <<>>
    /\ lastRoute = NoCall
    /\ firstDecision = <<>>

\* =================================================================
\*  Traffic lights: creation
\* =================================================================

\* street bearings as seen from the intersection, in degrees as Math.atan2 gives them
Bearings == {0, 45, 90, 180, -90, -135}

\* trafficLightManager.js:80-86 the direction group a light gets before pairing
fallbackGroup(angle) ==
    LET normalizedAngle == (angle + 360) % 360
        isNorthSouth == (normalizedAngle >= 45 /\ normalizedAngle <= 135)
                        \/ (normalizedAngle >= 225 /\ normalizedAngle <= 315)
    IN IF isNorthSouth THEN "north-south" ELSE "east-west"

\* trafficLightManager.js:146-152 how far a pair of streets is from being opposite
oppositeScore(angle1, angle2) ==
    LET angleDiff == Abs(angle1 - angle2)
        normalizedDiff == Min(angleDiff, 360 - angleDiff)
    IN Abs(normalizedDiff - 180)

\* trafficLightManager.js:182 the id of the groupIndex-th pair (the intersection id is left out:
\* the model has one intersection)
oppositeGroupName(groupIndex) ==
    IF groupIndex = 0 THEN "opposite-0" ELSE "opposite-1"

\* trafficLightManager.js:143-161 the pairs i < j in generation order, stably sorted by score:
\* p comes before q
pairBefore(p, q, streetAngles) ==
    LET sp == oppositeScore(streetAngles[p[1]], streetAngles[p[2]])
        sq == oppositeScore(streetAngles[q[1]], streetAngles[q[2]])
    IN \/ sp < sq
       \/ sp = sq /\ (p[1] < q[1] \/ (p[1] = q[1] /\ p[2] < q[2]))

RECURSIVE selectPairs(_, _, _, _)
\* trafficLightManager.js:164-178 take pairs in sorted order, skipping used streets
selectPairs(pairs, usedIndices, oppositeGroups, streetAngles) ==
    IF pairs = {} \/ Cardinality(usedIndices) >= Len(streetAngles) THEN oppositeGroups
    ELSE LET pair == CHOOSE p \in pairs : \A q \in pairs \ {p} : pairBefore(p, q, streetAngles)
         IN IF pair[1] \in usedIndices \/ pair[2] \in usedIndices
            THEN selectPairs(pairs \ {pair}, usedIndices, oppositeGroups, streetAngles)
            ELSE selectPairs(pairs \ {pair}, usedIndices \cup {pair[1], pair[2]},
                             Append(oppositeGroups, pair), streetAngles)

\* the lights left with the direction group they get before pairing
assignDirectionGroups(streetAngles) ==
    [i \in 1..Len(streetAngles) |-> fallbackGroup(streetAngles[i])]

\* trafficLightManager.js:129-200 the oppositeGroupId of every light
assignTrafficLightGroups(streetAngles) ==
    LET n == Len(streetAngles)
        pairs == {p \in (1..n) \X (1..n) : p[1] < p[2]}
        oppositeGroups == selectPairs(pairs, {}, <<>>, streetAngles)
        groupOf(i) == {g \in DOMAIN oppositeGroups :
                          oppositeGroups[g][1] = i \/ oppositeGroups[g][2] = i}
    IN [i \in 1..n |->
           IF groupOf(i) = {} THEN fallbackGroup(streetAngles[i])
           ELSE oppositeGroupName((CHOOSE g \in groupOf(i) : TRUE) - 1)]

\* trafficLightManager.js:39-120 one light per connected street; the group of the first
\* light starts green, every other light red, each timer a random offset
createIntersectionTrafficLights(streetAngles, jitter) ==
    IF Len(streetAngles) <= 2 THEN <<>>
    ELSE LET groups == assignTrafficLightGroups(streetAngles)
             greenGroupId == groups[1]
         IN [i \in 1..Len(streetAngles) |->
                [streetId |-> i,
                 oppositeGroupId |-> groups[i],
                 state |-> IF groups[i] = greenGroupId THEN "green" ELSE "red",
                 timer |-> jitter[i],
                 smartSwitchTarget |-> Null]]

\* =================================================================
\*  Traffic lights: the smart evaluation
\* =================================================================

\* trafficLightManager.js:240-241 the smart logic runs once the stamp is a second old
SmartInterval == 2 * HalfSecond

\* the timers of a mode are compared with nothing above this value, so they stop there
TimerCap(smart) == IF smart THEN 6 * HalfSecond + 1 ELSE 24 * HalfSecond

\* the groups of the lights in order of first appearance (the key order of the objects
\* built by combineOppositeStreetScores)
groupOrder(lights) ==
    LET first(i) == \A j \in 1..(i - 1) : lights[j].oppositeGroupId # lights[i].oppositeGroupId
        idx == {i \in DOMAIN lights : first(i)}
        nth(k) == CHOOSE i \in idx : Cardinality({j \in idx : j < i}) = k - 1
    IN [k \in 1..Cardinality(idx) |-> lights[nth(k)].oppositeGroupId]

\* trafficLightManager.js:585-599 sorted by arrival time, a car's rank is one more than the
\* number of cars that arrive strictly earlier (equal times share the rank of the first)
rankCarsByArrivalTime(approachingCarsData) ==
    [k \in DOMAIN approachingCarsData |->
        1 + Cardinality({j \in DOMAIN approachingCarsData :
              approachingCarsData[j].estimatedArrivalTime
                  < approachingCarsData[k].estimatedArrivalTime})]

\* trafficLightManager.js:607-622 every car adds 100 - rank to its street
calculateStreetScores(approachingCarsData, ranks, lights) ==
    [s \in {lights[i].streetId : i \in DOMAIN lights} |->
        SumOver([k \in DOMAIN approachingCarsData |-> 100 - ranks[k]],
                {k \in DOMAIN approachingCarsData : approachingCarsData[k].streetId = s})]

\* trafficLightManager.js:630-652 a group's score is the sum over its lights' streets
combineOppositeStreetScores(streetScores, lights) ==
    [g \in {lights[i].oppositeGroupId : i \in DOMAIN lights} |->
        SumOver([i \in DOMAIN lights |-> streetScores[lights[i].streetId]],
                {i \in DOMAIN lights : lights[i].oppositeGroupId = g})]

RECURSIVE highestScoring(_, _, _, _, _)
\* trafficLightManager.js:662-670 scan the groups, keeping the first strictly higher score
highestScoring(pairScores, order, k, highestScore, highestScoringGroup) ==
    IF k > Len(order) THEN [score |-> highestScore, group |-> highestScoringGroup]
    ELSE IF pairScores[order[k]] > highestScore
         THEN highestScoring(pairScores, order, k + 1, pairScores[order[k]], order[k])
         ELSE highestScoring(pairScores, order, k + 1, highestScore, highestScoringGroup)

\* trafficLightManager.js:672-674 the group of the first green light, if any
currentGreenGroupOf(lights) ==
    LET green == {i \in DOMAIN lights : lights[i].state = "green"}
    IN IF green = {} THEN Null
       ELSE lights[CHOOSE i \in green : \A j \in green : i <= j].oppositeGroupId

\* makeTrafficLightDecision holding the current green whenever its own phase has any score
makeTrafficLightDecisionKeepGreen(pairScores, lights) ==
    LET highest == highestScoring(pairScores, groupOrder(lights), 1, 0, Null)
        currentGreenGroup == currentGreenGroupOf(lights)
    IN IF currentGreenGroup # Null /\ pairScores[currentGreenGroup] > 0
       THEN [action |-> "NONE", targetGroup |-> currentGreenGroup,
             reason |-> "ALREADY_OPTIMAL"]
       ELSE IF highest.group = Null
       THEN [action |-> "NONE", targetGroup |-> currentGreenGroup,
             reason |-> "NO_CARS_KEEP_CURRENT"]
       ELSE IF currentGreenGroup = highest.group
       THEN [action |-> "NONE", targetGroup |-> highest.group, reason |-> "ALREADY_OPTIMAL"]
       ELSE [action |-> "SWITCH", targetGroup |-> highest.group,
             reason |-> "SWITCH_TO_HIGHER_SCORE"]

\* trafficLightManager.js:660-721
makeTrafficLightDecision(pairScores, lights) ==
    LET highest == highestScoring(pairScores, groupOrder(lights), 1, 0, Null)
        highestScoringGroup == highest.group
        currentGreenGroup == currentGreenGroupOf(lights)
        allRed == \A i \in DOMAIN lights : lights[i].state = "red"
        maxRedTime == MaxOver([i \in DOMAIN lights |-> lights[i].timer], DOMAIN lights)
    IN IF allRed /\ maxRedTime > 4 * HalfSecond
       THEN [action |-> "SWITCH",
             targetGroup |-> IF highestScoringGroup # Null THEN highestScoringGroup
                             ELSE lights[1].oppositeGroupId,
             reason |-> "DEADLOCK_PREVENTION_ALL_RED"]
       ELSE IF highestScoringGroup = Null /\ currentGreenGroup = Null
       THEN [action |-> "SWITCH", targetGroup |-> lights[1].oppositeGroupId,
             reason |-> "INITIALIZE_GREEN"]
       ELSE IF highestScoringGroup = Null
       THEN [action |-> "NONE", targetGroup |-> currentGreenGroup,
             reason |-> "NO_CARS_KEEP_CURRENT"]
       ELSE IF currentGreenGroup = highestScoringGroup
       THEN [action |-> "NONE", targetGroup |-> highestScoringGroup,
             reason |-> "ALREADY_OPTIMAL"]
       ELSE [action |-> "SWITCH", targetGroup |-> highestScoringGroup,
             reason |-> "SWITCH_TO_HIGHER_SCORE"]

\* a switch that turns the green lights yellow without recording its target
applySmartDecisionNoTarget(decision, lights) ==
    IF decision.action = "SWITCH"
    THEN [i \in DOMAIN lights |->
            IF lights[i].state = "green"
            THEN [lights[i] EXCEPT !.state = "yellow", !.timer = 0]
            ELSE lights[i]]
    ELSE lights

\* trafficLightManager.js:728-763
applySmartDecision(decision, lights) ==
    IF decision.action = "SWITCH"
    THEN [i \in DOMAIN lights |->
            IF lights[i].state = "green"
            THEN [lights[i] EXCEPT !.smartSwitchTarget = decision.targetGroup,
                                   !.state = "yellow", !.timer = 0]
            ELSE [lights[i] EXCEPT !.smartSwitchTarget = decision.targetGroup]]
    ELSE IF decision.action = "NONE" /\ decision.targetGroup # Null
    THEN [i \in DOMAIN lights |->
            IF lights[i].oppositeGroupId = decision.targetGroup /\ lights[i].state = "green"
            THEN [lights[i] EXCEPT !.timer = 0]
            ELSE lights[i]]
    ELSE lights

\* trafficLightManager.js:421-484 the decision for the vehicles found approaching, together
\* with the pair scores it was made from
analyzeAndDecideSmartTraffic(approachingCarsData, lights) ==
    LET rankedCars == rankCarsByArrivalTime(approachingCarsData)
        streetScores == calculateStreetScores(approachingCarsData, rankedCars, lights)
        pairScores == combineOppositeStreetScores(streetScores, lights)
        decision == makeTrafficLightDecision(pairScores, lights)
    IN [action |-> decision.action, targetGroup |-> decision.targetGroup,
        reason |-> decision.reason, pairScores |-> pairScores]

\* =================================================================
\*  Traffic lights: the state machine of one light
\* =================================================================

\* durations with a green state that no timer ends on fixed timers either
cycleDurationEndlessGreen(state, smart) ==
    CASE state = "yellow" -> IF smart THEN HalfSecond ELSE 4 * HalfSecond
      [] state = "waiting" -> HalfSecond
      [] state = "red" -> IF smart THEN TimerCap(smart) + 1 ELSE 24 * HalfSecond
      [] OTHER -> TimerCap(smart) + 1

\* trafficLightManager.js:258-297 how long a state lasts; Infinity is a value no timer reaches
cycleDuration(state, smart) ==
    IF smart
    THEN CASE state = "yellow" -> HalfSecond
           [] state = "waiting" -> HalfSecond
           [] OTHER -> TimerCap(smart) + 1
    ELSE CASE state = "green" -> 20 * HalfSecond
           [] state = "yellow" -> 4 * HalfSecond
           [] state = "red" -> 24 * HalfSecond
           [] state = "waiting" -> HalfSecond
           [] OTHER -> 20 * HalfSecond

\* a transition that is not propagated to the other lights of the group
syncGroupAlone(lights, i, from, to) ==
    [lights EXCEPT ![i].state = to]

\* trafficLightManager.js:317-327, 331-341, 380-390 light i takes state `to`, and so does
\* every other light of its group that is still in state `from`
syncGroup(lights, i, from, to) ==
    [k \in DOMAIN lights |->
        IF k = i THEN [lights[k] EXCEPT !.state = to]
        ELSE IF lights[k].oppositeGroupId = lights[i].oppositeGroupId /\ lights[k].state = from
             THEN [lights[k] EXCEPT !.state = to, !.timer = 0]
             ELSE lights[k]]

\* trafficLightManager.js:343-365 smart mode, after a yellow light turned red: the lights of the
\* pending target go from red to waiting, and the target is cleared once the group is all red
smartRedToWaiting(lights, i, targetGroup) ==
    LET waiting == [k \in DOMAIN lights |->
                      IF lights[k].oppositeGroupId = targetGroup /\ lights[k].state = "red"
                      THEN [lights[k] EXCEPT !.state = "waiting", !.timer = 0]
                      ELSE lights[k]]
        allCurrentGroupRed ==
            \A k \in DOMAIN waiting :
                waiting[k].oppositeGroupId = lights[i].oppositeGroupId
                    => waiting[k].state = "red"
    IN IF targetGroup = Null THEN lights
       ELSE IF allCurrentGroupRed
       THEN [k \in DOMAIN waiting |-> [waiting[k] EXCEPT !.smartSwitchTarget = Null]]
       ELSE waiting

\* trafficLightManager.js:366-376 fixed mode: every red light of another group goes to waiting
perpendicularToWaiting(lights, i) ==
    [k \in DOMAIN lights |->
        IF lights[k].oppositeGroupId # lights[i].oppositeGroupId /\ lights[k].state = "red"
        THEN [lights[k] EXCEPT !.state = "waiting", !.timer = 0]
        ELSE lights[k]]

\* changeState with the crossing lights released as soon as a green light turns yellow
changeStateEarlyRelease(lights, i, smart) ==
    LET reset == [lights EXCEPT ![i].timer = 0]
        state == lights[i].state
    IN CASE state = "green" ->
              perpendicularToWaiting(syncGroup(reset, i, "green", "yellow"), i)
         [] state = "yellow" -> syncGroup(reset, i, "yellow", "red")
         [] state = "waiting" -> syncGroup(reset, i, "waiting", "green")
         [] OTHER -> reset

\* trafficLightManager.js:300-400 the timer of light i has run out
changeState(lights, i, smart) ==
    LET reset == [lights EXCEPT ![i].timer = 0]
        state == lights[i].state
    IN CASE state = "green" -> syncGroup(reset, i, "green", "yellow")
         [] state = "yellow" ->
              IF smart
              THEN smartRedToWaiting(syncGroup(reset, i, "yellow", "red"), i,
                                     lights[i].smartSwitchTarget)
              ELSE perpendicularToWaiting(syncGroup(reset, i, "yellow", "red"), i)
         [] state = "waiting" -> syncGroup(reset, i, "waiting", "green")
         [] state = "red" -> reset
         [] OTHER -> [reset EXCEPT ![i].state = "red"]

NoDecision ==
    [evaluated |-> FALSE, action |-> "NONE", targetGroup |-> Null, reason |-> Null,
     pairScores |-> <<>>, greenBefore |-> {}]

\* trafficLightManager.js:236-256 the smart logic of a call, when it is due: the decision is
\* applied to the lights and recorded
smartControl(w, timed, approachingCarsData) ==
    LET d == analyzeAndDecideSmartTraffic(approachingCarsData, timed)
    IN [lights |-> applySmartDecision(d, timed),
        age |-> 0,
        decision |-> [evaluated |-> TRUE, action |-> d.action,
                      targetGroup |-> d.targetGroup, reason |-> d.reason,
                      pairScores |-> d.pairScores,
                      greenBefore |-> {timed[k].oppositeGroupId :
                                         k \in {j \in DOMAIN timed : timed[j].state = "green"}}]]

\* trafficLightManager.js:213-403 one call for light i. w carries the lights, the age of the
\* lastSmartUpdate stamp (already advanced to this frame) and the decision of this pass
updateTrafficLight(w, i, deltaTime, smart, approachingCarsData) ==
    LET timed == [w.lights EXCEPT ![i].timer = Min(@ + deltaTime, TimerCap(smart))]
        due == smart /\ (w.age = -1 \/ w.age >= SmartInterval)
        decided == IF due THEN smartControl(w, timed, approachingCarsData)
                   ELSE [w EXCEPT !.lights = timed]
        light == decided.lights[i]
    IN IF light.timer >= cycleDuration(light.state, smart)
       THEN [decided EXCEPT !.lights = changeState(decided.lights, i, smart)]
       ELSE decided

\* trafficLightManager.js:947-989
validateIntersectionSafety(lights) ==
    IF Len(lights) < 4 THEN lights
    ELSE
    LET greenLights == {i \in DOMAIN lights : lights[i].state = "green"}
        redLights == {i \in DOMAIN lights : lights[i].state = "red"}
        firstTwo == {i \in greenLights : Cardinality({j \in greenLights : j < i}) < 2}
        forced == [i \in DOMAIN lights |->
                     IF i \in greenLights \ firstTwo
                     THEN [lights[i] EXCEPT !.state = "red", !.timer = 0]
                     ELSE lights[i]]
        timeSinceAllRed == MinOver([i \in DOMAIN forced |-> forced[i].timer], DOMAIN forced)
    IN IF Cardinality(redLights) = Len(lights) /\ timeSinceAllRed > 6 * HalfSecond
       THEN [i \in DOMAIN forced |->
               IF forced[i].oppositeGroupId = "north-south"
               THEN [forced[i] EXCEPT !.state = "green", !.timer = 0]
               ELSE forced[i]]
       ELSE forced

RECURSIVE updateEach(_, _, _, _, _)
\* trafficLightManager.js:1002 lights.map: the lights are updated in array order, each call
\* working on what the earlier calls left in the shared objects
updateEach(w, i, deltaTime, smart, approachingCarsData) ==
    IF i > Len(w.lights) THEN w
    ELSE CHOOSE result \in
            {updateEach(next, i + 1, deltaTime, smart, approachingCarsData) :
                next \in {updateTrafficLight(w, i, deltaTime, smart, approachingCarsData)}} :
            TRUE

\* trafficLightManager.js:1001-1008 with the stamp's age advanced by the frame's deltaTime
\* (unnamed/part_001:331-333: deltaTime is the wall-clock time between two frames)
updateTrafficLights(lights, age, deltaTime, smart, approachingCarsData) ==
    LET aged == IF age = -1 \/ ~smart THEN age ELSE Min(age + deltaTime, SmartInterval)
        w == updateEach([lights |-> lights, age |-> aged, decision |-> NoDecision],
                        1, deltaTime, smart, approachingCarsData)
    IN [w EXCEPT !.lights = validateIntersectionSafety(w.lights)]

\* =================================================================
\*  The light update of a frame, at one intersection
\* =================================================================

\* what collectApproachingCarsData (trafficLightManager.js:495-578) can hand the evaluation:
\* for each approaching vehicle its street and its estimated arrival time. The scores do not
\* depend on the order of the vehicles, so each collection is drawn in one order
approachingCarsInputs(n) ==
    LET carData == [streetId : 1..n, estimatedArrivalTime : 1..MaxEta]
        before(a, b) == \/ a.streetId < b.streetId
                        \/ a.streetId = b.streetId
                           /\ a.estimatedArrivalTime <= b.estimatedArrivalTime
    IN UNION {{cars \in [1..m -> carData] :
                  \A k \in 1..(m - 1) : before(cars[k], cars[k + 1])} :
              m \in 0..MaxApproaching}

\* the streets of an intersection lead to different neighbours, each in its own direction
distinctBearings(n) ==
    {streetAngles \in [1..n -> Bearings] :
        \A i, j \in 1..n : i # j => streetAngles[i] # streetAngles[j]}

\* a forced switch: decided with no light green, to prevent or leave an all-red intersection
isForcedSwitch(decision) ==
    /\ decision.evaluated
    /\ decision.greenBefore = {}
    /\ decision.action = "SWITCH"
    /\ decision.reason \in {"DEADLOCK_PREVENTION_ALL_RED", "INITIALIZE_GREEN"}

\* the updates a forced switch is given to turn its target green: twice what a yellow and
\* a waiting period of half a second each take at the shortest deltaTime
ForcedSwitchTicks == 4 * HalfSecond

NoPending == [group |-> Null, ticks |-> 0]

\* history of forced switches: a new one starts the count, the target turning green ends it
nextPending(pending, decision, lights) ==
    LET p == IF isForcedSwitch(decision)
             THEN [group |-> decision.targetGroup, ticks |-> 0]
             ELSE IF pending.group = Null THEN pending
             ELSE [pending EXCEPT !.ticks = Min(@ + 1, ForcedSwitchTicks + 1)]
    IN IF \E i \in DOMAIN lights :
             lights[i].oppositeGroupId = p.group /\ lights[i].state = "green"
       THEN NoPending
       ELSE p

\* the updates a switch is given to turn its target green: a yellow and a waiting period
\* of half a second each at the shortest deltaTime, and the update that decided it
SwitchTicks == 2 * HalfSecond + 1

NoSwitch == [from |-> Null, target |-> Null, ticks |-> 0, done |-> FALSE]

\* history of the switches decided while a phase was green: a new one starts the count,
\* the target turning green ends it
nextSwitch(pending, decision, lights) ==
    LET p == IF /\ decision.evaluated
                /\ decision.action = "SWITCH"
                /\ decision.greenBefore # {}
             THEN [from |-> CHOOSE g \in decision.greenBefore : TRUE,
                   target |-> decision.targetGroup, ticks |-> 1, done |-> FALSE]
             ELSE IF pending.target = Null \/ pending.done THEN pending
             ELSE [pending EXCEPT !.ticks = Min(@ + 1, SwitchTicks + 1)]
    IN IF \E i \in DOMAIN lights :
             lights[i].oppositeGroupId = p.target /\ lights[i].state = "green"
       THEN [p EXCEPT !.done = TRUE]
       ELSE p

\* the state changes of a light that are counted: those of its first cycle and one more
CycleChanges == 5

\* no stay is measured beyond the longest a fixed-timing state lasts and a second more
StayCap == 26 * HalfSecond

FirstStay ==
    [length |-> 0, coarse |-> FALSE, changes |-> 0, lastState |-> Null, lastLength |-> 0]

\* history of the stays of each light: a stay lasts from the tick boundary that first
\* shows the state to the one that first shows the next; the history is coarse once a
\* time-step has been longer than the finest
nextStays(old, before, after, deltaTime) ==
    [i \in DOMAIN old |->
        IF after[i].state = before[i].state
        THEN [old[i] EXCEPT !.length = Min(@ + deltaTime, StayCap),
                            !.coarse = @ \/ deltaTime > 1]
        ELSE [length |-> 0, coarse |-> old[i].coarse \/ deltaTime > 1,
              changes |-> Min(old[i].changes + 1, CycleChanges),
              lastState |-> before[i].state,
              lastLength |-> Min(old[i].length + deltaTime, StayCap)]]

\* unnamed/part_001:242-324 the lights of an intersection as the panel creates them
InitLights ==
    /\ \E n \in 3..MaxStreets :
         \E streetAngles \in distinctBearings(n), jitter \in [1..n -> 0..MaxJitter] :
            trafficLights = createIntersectionTrafficLights(streetAngles, jitter)
    /\ isSmartControl \in BOOLEAN
    /\ lastSmartUpdate = -1
    /\ smartDecision = NoDecision
    /\ pendingForced = NoPending
    /\ pendingSwitch = NoSwitch
    /\ stays = IF isSmartControl THEN <<>>
               ELSE [i \in DOMAIN trafficLights |-> FirstStay]
    /\ routeIdle
    /\ tickIdle

\* unnamed/part_001:330-347 a frame's setTrafficLights(prev => updateTrafficLights(...))
frameLights ==
    \E deltaTime \in 1..MaxDelta :
       LET due == isSmartControl
                  /\ (lastSmartUpdate = -1 \/ lastSmartUpdate + deltaTime >= SmartInterval)
       IN \E cars \in (IF due THEN approachingCarsInputs(Len(trafficLights)) ELSE {<<>>}) :
             \E w \in {updateTrafficLights(trafficLights, lastSmartUpdate, deltaTime,
                                             isSmartControl, cars)} :
                /\ trafficLights' = w.lights
                /\ lastSmartUpdate' = w.age
                /\ smartDecision' = w.decision
                /\ pendingForced' = nextPending(pendingForced, w.decision, w.lights)
                /\ pendingSwitch' = nextSwitch(pendingSwitch, w.decision, w.lights)
                /\ stays' = nextStays(stays, trafficLights, w.lights, deltaTime)
                /\ UNCHANGED <<isSmartControl, routeVars, tickVars, carVars, panelVars>>

vars == <<lightVars, routeVars, tickVars, carVars, panelVars>>

SpecLights == InitLights /\ [][frameLights]_vars

\* an intersection found with every light red (the situation the last-resort rules of the
\* validation and of the smart decision are written for)
InitAllRed ==
    /\ \E n \in 3..MaxStreets :
         \E streetAngles \in distinctBearings(n) :
            trafficLights =
                [i \in 1..n |->
                    [createIntersectionTrafficLights(streetAngles, [k \in 1..n |-> 0])[i]
                        EXCEPT !.state = "red"]]
    /\ isSmartControl \in BOOLEAN
    /\ lastSmartUpdate = -1
    /\ smartDecision = NoDecision
    /\ pendingForced = NoPending
    /\ pendingSwitch = NoSwitch
    /\ stays = <<>>
    /\ routeIdle
    /\ tickIdle

SpecAllRed == InitAllRed /\ [][frameLights]_vars

\* =================================================================
\*  Routing: findBestNextStreet and its cache
\* =================================================================
\* vehicle groups (a vehicle and its twin on the other panel share originalId)
MaxCarGroups == 1
\* Math.random() takes the values r / RandomSteps, r in 0..RandomSteps-1
RandomSteps == 2

Numerals == <<"1", "2", "3", "4", "5">>
Sides == {"left", "right"}

\* unnamed/part_002:356 car-<time>-<random>
CarIds == {<<"car", Numerals[n], "0">> : n \in 1..MaxCarGroups}

\* unnamed/part_001:601 location-<time>-<random>, with the canvas position
locationId(n) == <<"location", Numerals[n], "0">>
Locations ==
    { [id |-> locationId(1), x |-> 0, y |-> 0],
      [id |-> locationId(2), x |-> 2, y |-> 0],
      [id |-> locationId(3), x |-> 0, y |-> -2],
      [id |-> locationId(4), x |-> -2, y |-> 0] }
LocationIds == {l.id : l \in Locations}

\* unnamed/part_001:663 street-<time>-<random>; the streets the editor may draw here
streetId(n) == <<"street", Numerals[n], "0">>
StreetChoices ==
    { [id |-> streetId(1), from |-> locationId(1), to |-> locationId(2)],
      [id |-> streetId(2), from |-> locationId(3), to |-> locationId(1)],
      [id |-> streetId(3), from |-> locationId(1), to |-> locationId(4)] }
StreetIds == {s.id : s \in StreetChoices}

\* carManager.js:304 streets.filter(s => s.from === id || s.to === id)
connectedTo(streetList, locId) ==
    SelectSeq(streetList, LAMBDA s : s.from = locId \/ s.to = locId)

\* carManager.js:314 `${carOriginalId}-${currentLocationId}-${previousStreetId}`
routingKey(carOriginalId, currentLocationId, previousStreetId) ==
    carOriginalId \o currentLocationId \o previousStreetId

\* carManager.js:741 the location a vehicle travelling on street in direction arrives at
arrivalLocation(street, direction) ==
    IF direction = "forward" THEN street.to ELSE street.from

\* carManager.js:442-474; the approach angle is given as the vector travelled along.
\* |turn| < 30 degrees iff cos > sqrt(3)/2, > 150 degrees iff cos < -sqrt(3)/2, and the
\* sign of the normalised angle is the sign of the cross product
calculateTurnType(currentLocation, nextStreet, approach, locations) ==
    LET otherEndId == IF nextStreet.from = currentLocation.id
                      THEN nextStreet.to ELSE nextStreet.from
        found == {l \in locations : l.id = otherEndId}
    IN IF found = {} THEN "straight"
       ELSE LET otherEnd == CHOOSE l \in found : TRUE
                ex == otherEnd.x - currentLocation.x
                ey == otherEnd.y - currentLocation.y
                dot == approach.x * ex + approach.y * ey
                cross == approach.x * ey - approach.y * ex
                n2 == (approach.x * approach.x + approach.y * approach.y)
                          * (ex * ex + ey * ey)
            IN IF dot > 0 /\ 4 * dot * dot > 3 * n2 THEN "straight"
               ELSE IF dot < 0 /\ 4 * dot * dot > 3 * n2 THEN "uturn"
               ELSE IF cross > 0 THEN "left"
               ELSE "right"

\* carManager.js:326-398 the decision computed when the cache does not answer
computeRoute(currentLocationId, previousStreetId, streetList, locations, random) ==
    LET allConnectedStreets == connectedTo(streetList, currentLocationId)
        connectedStreets ==
            SelectSeq(allConnectedStreets, LAMBDA s : s.id # previousStreetId)
        uturn(street) ==
            [street |-> street,
             direction |-> IF street.from = currentLocationId THEN "backward" ELSE "forward",
             turn |-> "uturn"]
        exitDirection(street) ==
            IF street.from = currentLocationId THEN "forward" ELSE "backward"
    IN IF Len(allConnectedStreets) = 1 THEN uturn(allConnectedStreets[1])
       ELSE IF Len(allConnectedStreets) = 2
       THEN IF Len(connectedStreets) > 0
            THEN [street |-> connectedStreets[1],
                  direction |-> exitDirection(connectedStreets[1]), turn |-> "straight"]
            ELSE uturn(allConnectedStreets[1])
       ELSE IF Len(allConnectedStreets) >= 3
       THEN IF Len(connectedStreets) > 0
            THEN LET randomIndex == (random * Len(connectedStreets)) \div RandomSteps
                     selectedStreet == connectedStreets[randomIndex + 1]
                     here == {l \in locations : l.id = currentLocationId}
                     previous == {s \in {streetList[i] : i \in DOMAIN streetList} :
                                     s.id = previousStreetId}
                     turn ==
                        IF here = {} \/ previous = {} THEN "straight"
                        ELSE LET currentLocation == CHOOSE l \in here : TRUE
                                 previousStreet == CHOOSE s \in previous : TRUE
                                 prevOtherEndId ==
                                     IF previousStreet.from = currentLocationId
                                     THEN previousStreet.to ELSE previousStreet.from
                                 prevOther == {l \in locations : l.id = prevOtherEndId}
                             IN IF prevOther = {} THEN "straight"
                                ELSE LET o == CHOOSE l \in prevOther : TRUE
                                     IN calculateTurnType(currentLocation, selectedStreet,
                                            [x |-> currentLocation.x - o.x,
                                             y |-> currentLocation.y - o.y], locations)
                 IN [street |-> selectedStreet,
                     direction |-> exitDirection(selectedStreet), turn |-> turn]
            ELSE uturn(allConnectedStreets[1])
       ELSE NoRoute

\* the same call with the cache never consulted
findBestNextStreetNoCache(currentLocationId, destinationId, previousStreetId, streetList, locations, carOriginalId, cache, random) ==
    LET routingDecision ==
            computeRoute(currentLocationId, previousStreetId, streetList, locations, random)
        key == routingKey(carOriginalId, currentLocationId, previousStreetId)
    IN [decision |-> routingDecision,
        cache |-> IF carOriginalId # NullId /\ routingDecision # NoRoute
                  THEN (key :> routingDecision) @@ cache ELSE cache]

\* carManager.js:299-407; destinationId is not used by the code either
findBestNextStreet(currentLocationId, destinationId, previousStreetId, streetList, locations, carOriginalId, cache, random) ==
    LET key == routingKey(carOriginalId, currentLocationId, previousStreetId)
    IN IF carOriginalId # NullId /\ key \in DOMAIN cache
       THEN [decision |-> cache[key], cache |-> cache]
       ELSE LET routingDecision ==
                    computeRoute(currentLocationId, previousStreetId, streetList,
                                 locations, random)
            IN [decision |-> routingDecision,
                cache |-> IF carOriginalId # NullId /\ routingDecision # NoRoute
                          THEN (key :> routingDecision) @@ cache ELSE cache]

\* every other part of the program is left alone by the routing actions
routeFrame == UNCHANGED <<lightVars, tickVars, carVars, panelVars>>

\* one call of findBestNextStreet by a panel, with the histories the claims are stated on
route(side, carOriginalId, currentLocationId, previousStreetId, random) ==
    \E answer \in {findBestNextStreet(currentLocationId, NullId, previousStreetId, streets,
                                       Locations, carOriginalId, routingDecisions, random)} :
       LET asked == <<carOriginalId, currentLocationId, previousStreetId>>
           repeated == asked \in DOMAIN firstDecision
       IN /\ routingDecisions' = answer.cache
          /\ lastRoute' = [called |-> TRUE, side |-> side, asked |-> asked,
                           decision |-> answer.decision, repeated |-> repeated,
                           afterOther |-> /\ lastRoute.called
                                          /\ lastRoute.asked # asked
                                          /\ lastRoute.side # side]
          /\ firstDecision' =
                IF repeated THEN firstDecision
                ELSE (asked :> answer.decision) @@ firstDecision
          /\ UNCHANGED streets
          /\ routeFrame

\* carManager.js:738-867 a vehicle of either panel reaches the end of its street: a location
\* with exactly one street is a parking lot and is left without routing (l.750-803),
\* anywhere else the next street is asked for (l.812, l.860)
routeAtEndOfStreet ==
    \E side \in Sides, carOriginalId \in CarIds, i \in DOMAIN streets,
       direction \in {"forward", "backward"}, random \in 0..(RandomSteps - 1) :
       LET nextLocationId == arrivalLocation(streets[i], direction)
       IN /\ Len(connectedTo(streets, nextLocationId)) # 1
          /\ route(side, carOriginalId, nextLocationId, streets[i].id, random)

\* carManager.js:413-416 with App.jsx:56-82: a test scenario is loaded
loadScenario ==
    /\ streets' = <<CHOOSE s \in StreetChoices : s.id = streetId(2),
                    CHOOSE s \in StreetChoices : s.id = streetId(1),
                    CHOOSE s \in StreetChoices : s.id = streetId(3)>>
    /\ routingDecisions' = <<>>
    /\ lastRoute' = NoCall
    /\ firstDecision' = <<>>
    /\ routeFrame

\* carManager.js:413-416 with App.jsx:84-90
clearScenario ==
    /\ streets' = <<>>
    /\ routingDecisions' = <<>>
    /\ lastRoute' = NoCall
    /\ firstDecision' = <<>>
    /\ routeFrame

\* unnamed/part_001:663-670 the editor appends a street; the cache is not cleared
addStreet ==
    \E s \in StreetChoices :
       /\ \A i \in DOMAIN streets : streets[i].id # s.id
       /\ streets' = Append(streets, s)
       /\ UNCHANGED <<routingDecisions, lastRoute, firstDecision>>
       /\ routeFrame

\* unnamed/part_001:979 the editor deletes a street; the cache is not cleared
deleteStreet ==
    \E i \in DOMAIN streets :
       /\ streets' = SelectSeq(streets, LAMBDA s : s.id # streets[i].id)
       /\ UNCHANGED <<routingDecisions, lastRoute, firstDecision>>
       /\ routeFrame

\* the lights play no part in routing
lightsIdle ==
    /\ trafficLights = <<>>
    /\ isSmartControl = FALSE
    /\ lastSmartUpdate = -1
    /\ smartDecision = NoDecision
    /\ pendingForced = NoPending
    /\ pendingSwitch = NoSwitch
    /\ stays = <<>>

InitRouting == routeIdle /\ lightsIdle /\ tickIdle

NextRouting ==
    \/ routeAtEndOfStreet
    \/ loadScenario
    \/ clearScenario
    \/ addStreet
    \/ deleteStreet

SpecRouting == InitRouting /\ [][NextRouting]_vars

RECURSIVE streetLayouts(_)
\* every order in which the editor can have drawn some of the streets of the set S
streetLayouts(S) ==
    {<<>>} \cup UNION {{Append(l, s) : l \in streetLayouts(S \ {s})} : s \in S}

\* the function called once, on any street layout, for any location and previous street,
\* with and without a vehicle group id, on an empty cache
InitRouteCall ==
    /\ streets \in {l \in streetLayouts(StreetChoices) : TRUE}
    /\ routingDecisions = <<>>
    /\ lastRoute = NoCall
    /\ firstDecision = <<>>
    /\ lightsIdle
    /\ tickIdle

callFindBestNextStreet ==
    /\ ~lastRoute.called
    /\ \E side \in Sides, carOriginalId \in CarIds \cup {NullId},
          currentLocationId \in LocationIds, previousStreetId \in StreetIds \cup {NullId},
          random \in 0..(RandomSteps - 1) :
          route(side, carOriginalId, currentLocationId, previousStreetId, random)

SpecRouteCall == InitRouteCall /\ [][callFindBestNextStreet]_vars

\* =================================================================
\*  A frame of a panel: runSimulation and the render that follows it
\* =================================================================
\* the bearings of the streets of the intersection the frame model runs on
TickBearings == <<0, 90, 180, -90>>

InitTick ==
    /\ \E n \in 3..MaxStreets :
         \E jitter \in [1..n -> 0..MaxJitter] :
            trafficLights =
                createIntersectionTrafficLights(SubSeq(TickBearings, 1, n), jitter)
    /\ isSmartControl \in BOOLEAN
    /\ lastSmartUpdate = -1
    /\ smartDecision = NoDecision
    /\ pendingForced = NoPending
    /\ pendingSwitch = NoSwitch
    /\ stays = <<>>
    /\ routeIdle
    /\ tickIdle

\* the light updater of a frame (unnamed/part_001:336-347) applied to the light objects;
\* updateTrafficLight changes the objects it is given (trafficLightManager.js:215, 317-385),
\* so the array the vehicle update holds shows the change as soon as the updater has run
runLightUpdater(deltaTime, approaching) ==
    \E w \in {updateTrafficLights(trafficLights, lastSmartUpdate, deltaTime,
                                    isSmartControl, approaching)} :
       /\ trafficLights' = w.lights
       /\ lastSmartUpdate' = w.age
       /\ smartDecision' = w.decision
       /\ pendingForced' = nextPending(pendingForced, w.decision, w.lights)
       /\ pendingSwitch' = nextSwitch(pendingSwitch, w.decision, w.lights)
       /\ stays' = nextStays(stays, trafficLights, w.lights, deltaTime)

\* unnamed/part_001:330-551 runSimulation hands React two updaters: setTrafficLights (l.336)
\* and then setLocalCars (l.350), whose simulateTraffic call reads the trafficLights of the
\* render the effect was created in (l.359), not the result of the first updater.
\* React runs a queued updater either at once, when the component has no update pending,
\* or during the next render; both are taken.
runSimulation ==
    /\ ~updateQueue.lights /\ ~updateQueue.cars
    /\ \E deltaTime \in 1..MaxDelta, atOnce \in BOOLEAN :
          LET due == isSmartControl
                     /\ (lastSmartUpdate = -1 \/ lastSmartUpdate + deltaTime >= SmartInterval)
          IN \E approaching \in (IF due THEN approachingCarsInputs(Len(trafficLights))
                                  ELSE {<<>>}) :
                /\ IF atOnce
                   THEN /\ runLightUpdater(deltaTime, approaching)
                        /\ updateQueue' = [lights |-> FALSE, cars |-> TRUE,
                                           deltaTime |-> deltaTime, approaching |-> <<>>]
                   ELSE /\ UNCHANGED lightVars
                        /\ updateQueue' = [lights |-> TRUE, cars |-> TRUE,
                                           deltaTime |-> deltaTime,
                                           approaching |-> approaching]
                /\ carsSaw' = NothingRead
                /\ UNCHANGED <<isSmartControl, routeVars, carVars, panelVars>>

\* the render of Canvas after a frame: the hooks run their queued updaters in the order
\* the hooks are declared in, localCars (unnamed/part_001:197) before trafficLights (l.198)
renderCanvas ==
    /\ updateQueue.cars
    /\ carsSaw' = [read |-> TRUE,
                   states |-> [i \in DOMAIN trafficLights |-> trafficLights[i].state]]
    /\ IF updateQueue.lights
       THEN runLightUpdater(updateQueue.deltaTime, updateQueue.approaching)
       ELSE UNCHANGED <<trafficLights, lastSmartUpdate, smartDecision, pendingForced,
                        pendingSwitch, stays>>
    /\ updateQueue' = NoUpdates
    /\ UNCHANGED <<isSmartControl, routeVars, carVars, panelVars>>

NextTick == runSimulation \/ renderCanvas

SpecTick == InitTick /\ [][NextTick]_vars

\* =================================================================
\*  Vehicles: position and collision analysis
\* =================================================================
\* Lengths are counted in hundredths of a pixel, speeds in hundredths of the program's
\* speed unit and a frame's deltaTime in twentieths of a second.  Progress along a street
\* is counted in steps of 1 / ProgressScale, which is what one speed unit covers in one
\* time unit (carManager.js:704, speed * deltaTime * 0.08 = 0.01 * 0.05 * 0.08).

\* hundredths of a pixel per pixel
Pixel == 100
\* speed units per 1.0 of the program's speed
SpeedScale == 100
\* time units per second
TicksPerSecond == 20
\* progress units per street
ProgressScale == 25000
\* the canvas distance between two neighbouring locations of the layout: 250 pixels
GridStep == 125 * Pixel

\* carManager.js:162
laneOffset == 12 * Pixel
\* carManager.js:1045-1047
CAR_WIDTH == 28 * Pixel
CAR_HEIGHT == 14 * Pixel
SAFETY_MARGIN == 5 * Pixel
\* carManager.js:513-515
CAR_LENGTH == 28 * Pixel
SAFE_FOLLOWING_DISTANCE == 2 * CAR_LENGTH
MINIMUM_DISTANCE == (11 * CAR_LENGTH) \div 10
\* carManager.js:646-649, per time unit
ACCELERATION == (12 * SpeedScale) \div (10 * TicksPerSecond)
DECELERATION == (24 * SpeedScale) \div (10 * TicksPerSecond)
EMERGENCY_DECELERATION == (5 * SpeedScale) \div TicksPerSecond
TURN_DECELERATION == (3 * SpeedScale) \div TicksPerSecond
\* carManager.js:1481 simulateTraffic caps deltaTime at 0.1 s
DeltaCap == TicksPerSecond \div 10
\* carManager.js:589
LOCATION_RADIUS == 20 * Pixel

\* the locations in the order of the locations array
LocationList ==
    <<CHOOSE l \in Locations : l.id = locationId(1),
      CHOOSE l \in Locations : l.id = locationId(2),
      CHOOSE l \in Locations : l.id = locationId(3),
      CHOOSE l \in Locations : l.id = locationId(4)>>

NoLocation == [id |-> NullId, x |-> 0, y |-> 0]
NoPosition == [found |-> FALSE, x |-> 0, y |-> 0, angle |-> 0]

\* streets.find(s => s.id === id)
findStreet(streetList, id) ==
    LET found == SelectSeq(streetList, LAMBDA s : s.id = id)
    IN IF found = <<>> THEN NoStreet ELSE found[1]

\* locations.find(loc => loc.id === id)
findLocation(locations, id) ==
    IF \E l \in locations : l.id = id
    THEN CHOOSE l \in locations : l.id = id
    ELSE NoLocation

sign(a) == IF a > 0 THEN 1 ELSE IF a < 0 THEN -1 ELSE 0
least(S) == CHOOSE m \in S : \A n \in S : m <= n
greatest(S) == CHOOSE m \in S : \A n \in S : m >= n

\* Math.cos and Math.sin of an angle in degrees; the streets of the layout run along the
\* axes, so every angle is a multiple of 90
cosDegrees(angle) ==
    LET a == (angle + 360) % 360 IN IF a = 0 THEN 1 ELSE IF a = 180 THEN -1 ELSE 0
sinDegrees(angle) ==
    LET a == (angle + 360) % 360 IN IF a = 90 THEN 1 ELSE IF a = 270 THEN -1 ELSE 0

\* carManager.js:1204, 1383 the fraction of the street left before the end the vehicle is
\* heading for; the progress is not clamped here
distanceToEnd(car) ==
    IF car.direction = "forward" THEN ProgressScale - car.progress ELSE car.progress

\* carManager.js:131-179 the straight-line position between the two ends of the street
positionBetween(car, fromLocation, toLocation) ==
    LET progress == Max(0, Min(ProgressScale, car.progress))
        lengthX == (toLocation.x - fromLocation.x) * GridStep
        lengthY == (toLocation.y - fromLocation.y) * GridStep
        \* cos and sin of streetAngle
        cosStreet == sign(toLocation.x - fromLocation.x)
        sinStreet == sign(toLocation.y - fromLocation.y)
        forward == car.direction = "forward"
    IN [found |-> TRUE,
        \* the centre of the street, moved by laneOffset along perpAngle: streetAngle + 90
        \* forward, streetAngle - 90 backward
        x |-> fromLocation.x * GridStep + (lengthX * progress) \div ProgressScale
              + (IF forward THEN 0 - sinStreet ELSE sinStreet) * laneOffset,
        y |-> fromLocation.y * GridStep + (lengthY * progress) \div ProgressScale
              + (IF forward THEN cosStreet ELSE 0 - cosStreet) * laneOffset,
        \* streetAngle, turned by 180 and brought back below 360 for a backward vehicle
        angle |-> IF toLocation.x > fromLocation.x THEN (IF forward THEN 0 ELSE 180)
                  ELSE IF toLocation.y > fromLocation.y THEN (IF forward THEN 90 ELSE 270)
                  ELSE IF toLocation.x < fromLocation.x THEN (IF forward THEN 180 ELSE 0)
                  ELSE (IF forward THEN -90 ELSE 90)]

\* carManager.js:105-129 the two ends of the street
positionOnStreet(car, street, locations) ==
    IF street = NoStreet \/ findLocation(locations, street.from) = NoLocation
       \/ findLocation(locations, street.to) = NoLocation
    THEN NoPosition
    ELSE positionBetween(car, findLocation(locations, street.from),
                         findLocation(locations, street.to))

\* carManager.js:97-179; calculateCurvedTurnPosition (l.192-195) returns null, so every
\* position is the straight-line one
calculateCarPosition(car, streetList, locations) ==
    positionOnStreet(car, findStreet(streetList, car.currentStreetId), locations)

\* carManager.js:1080-1111 the axis-parallel box around the rotated rectangle
getCarBounds(position, width, height) ==
    LET halfWidth == width \div 2
        halfHeight == height \div 2
        corners == {<<0 - halfWidth, 0 - halfHeight>>, <<halfWidth, 0 - halfHeight>>,
                    <<halfWidth, halfHeight>>, <<0 - halfWidth, halfHeight>>}
        c == cosDegrees(position.angle)
        s == sinDegrees(position.angle)
        xs == {position.x + corner[1] * c - corner[2] * s : corner \in corners}
        ys == {position.y + corner[1] * s + corner[2] * c : corner \in corners}
    IN [minX |-> least(xs), maxX |-> greatest(xs), minY |-> least(ys), maxY |-> greatest(ys)]

\* carManager.js:1120-1125
checkBoundsCollision(bounds1, bounds2, margin) ==
    ~ \/ bounds1.maxX + margin < bounds2.minX
      \/ bounds2.maxX + margin < bounds1.minX
      \/ bounds1.maxY + margin < bounds2.minY
      \/ bounds2.maxY + margin < bounds1.minY

\* carManager.js:1152-1188; the movement vector of a street along an axis has length one
\* after normalising, and dot > 0.5 is  along > 0  and  4 along^2 > along^2 + across^2
headsToward(movementX, movementY, toTargetX, toTargetY) ==
    /\ ~(movementX = 0 /\ movementY = 0)
    /\ ~(toTargetX = 0 /\ toTargetY = 0)
    /\ movementX * toTargetX + movementY * toTargetY > 0
    /\ (movementX * toTargetX + movementY * toTargetY)
         * (movementX * toTargetX + movementY * toTargetY)
       > ((movementX * toTargetY - movementY * toTargetX)
            * (movementX * toTargetY - movementY * toTargetX)) \div 3

\* carManager.js:1139-1160
movesToward(car, targetPoint, currentPos, fromLocation, toLocation) ==
    /\ car.speed >= 1
    /\ currentPos.found
    /\ headsToward((IF car.direction = "forward" THEN 1 ELSE -1)
                       * sign(toLocation.x - fromLocation.x),
                   (IF car.direction = "forward" THEN 1 ELSE -1)
                       * sign(toLocation.y - fromLocation.y),
                   targetPoint.x - currentPos.x,
                   targetPoint.y - currentPos.y)

\* carManager.js:1135-1188
isCarMovingTowardPoint(car, targetPoint, streetList, locations) ==
    movesToward(car, targetPoint, calculateCarPosition(car, streetList, locations),
                findLocation(locations, findStreet(streetList, car.currentStreetId).from),
                findLocation(locations, findStreet(streetList, car.currentStreetId).to))

RECURSIVE squareRoot(_, _, _)
\* Math.sqrt rounded down: the largest r in low..high with r * r <= n
squareRoot(low, high, n) ==
    IF low >= high THEN low
    ELSE IF ((low + high + 1) \div 2) * ((low + high + 1) \div 2) <= n
    THEN squareRoot((low + high + 1) \div 2, high, n)
    ELSE squareRoot(low, (low + high + 1) \div 2 - 1, n)

\* carManager.js:1049-1070; distance2 is the square of the centre distance, and distance
\* the centre distance itself rounded down (exact for two vehicles of one lane)
collisionBetween(car1, car2, pos1, pos2, streetList, locations) ==
    [measured |-> TRUE,
     distance |-> squareRoot(0, Min(Abs(pos2.x - pos1.x) + Abs(pos2.y - pos1.y), 46340),
                             (pos2.x - pos1.x) * (pos2.x - pos1.x)
                               + (pos2.y - pos1.y) * (pos2.y - pos1.y)),
     distance2 |-> (pos2.x - pos1.x) * (pos2.x - pos1.x)
                     + (pos2.y - pos1.y) * (pos2.y - pos1.y),
     isColliding |-> checkBoundsCollision(getCarBounds(pos1, CAR_WIDTH, CAR_HEIGHT),
                                          getCarBounds(pos2, CAR_WIDTH, CAR_HEIGHT),
                                          SAFETY_MARGIN),
     car1MovingToward |-> isCarMovingTowardPoint(car1, pos2, streetList, locations),
     car2MovingToward |-> isCarMovingTowardPoint(car2, pos1, streetList, locations)]

NotMeasured ==
    [measured |-> FALSE, distance |-> 0, distance2 |-> 0, isColliding |-> FALSE,
     car1MovingToward |-> FALSE, car2MovingToward |-> FALSE]

\* carManager.js:1038-1071
positionsCollide(car1, car2, pos1, pos2, streetList, locations) ==
    IF ~pos1.found \/ ~pos2.found THEN NotMeasured
    ELSE collisionBetween(car1, car2, pos1, pos2, streetList, locations)

\* carManager.js:1038-1071
analyzeCarCollision(car1, car2, streetList, locations) ==
    positionsCollide(car1, car2, calculateCarPosition(car1, streetList, locations),
                     calculateCarPosition(car2, streetList, locations),
                     streetList, locations)

\* carManager.js:930-965 the index in allCars of the nearest vehicle ahead in the lane, 0
\* when there is none
findCarAhead(car, allCars) ==
    LET isAhead(k) ==
            /\ allCars[k].id # car.id
            /\ allCars[k].currentStreetId = car.currentStreetId
            /\ allCars[k].direction = car.direction
            /\ ~allCars[k].reachedDestination
            /\ IF car.direction = "forward"
               THEN allCars[k].progress > car.progress
               ELSE allCars[k].progress < car.progress
        ahead == {k \in DOMAIN allCars : isAhead(k)}
        gap(k) == Abs(allCars[k].progress - car.progress)
    IN IF ahead = {} THEN 0
       ELSE CHOOSE k \in ahead :
               \A j \in ahead \ {k} : gap(k) < gap(j) \/ (gap(k) = gap(j) /\ k < j)

\* carManager.js:1248-1261 the priority of a possible collision: a whole number plus
\* max(0, 1 - distance / 100) for the centre distance in pixels
collisionPriority(car, otherCar, collisionAnalysis) ==
    [whole |-> 1 + (IF collisionAnalysis.car2MovingToward THEN 3 ELSE 0)
                 - (IF collisionAnalysis.car1MovingToward THEN 0 ELSE 2)
                 + (IF otherCar.speed > car.speed THEN 1 ELSE 0),
     distance2 |-> collisionAnalysis.distance2]

\* priority > 0 (carManager.js:1276 against the initial highestPriority)
priorityAboveZero(p) ==
    \/ p.whole >= 1
    \/ p.whole = 0 /\ p.distance2 < (100 * Pixel) * (100 * Pixel)

\* priority p > priority q (carManager.js:1276); the distance factors lie in 0..1, and the
\* nearer vehicle has the larger one
priorityAbove(p, q) ==
    \/ p.whole > q.whole + 1
    \/ p.whole = q.whole + 1
         /\ ~(p.distance2 >= (100 * Pixel) * (100 * Pixel) /\ q.distance2 = 0)
    \/ p.whole = q.whole
         /\ p.distance2 < (100 * Pixel) * (100 * Pixel)
         /\ p.distance2 < q.distance2

NoCrossTraffic == [found |-> FALSE, car |-> 0, shouldStop |-> FALSE, car1MovingToward |-> FALSE]

\* carManager.js:1222-1274 whether otherCar is critical cross traffic for car, given the
\* analysis of the two
criticalCollision(car, otherCar, collisionAnalysis, streetList, intersectionLocationId) ==
    /\ otherCar.id # car.id
    /\ ~otherCar.reachedDestination
    /\ findStreet(streetList, otherCar.currentStreetId) # NoStreet
    /\ \E i \in DOMAIN connectedTo(streetList, intersectionLocationId) :
          connectedTo(streetList, intersectionLocationId)[i].id = otherCar.currentStreetId
    /\ otherCar.currentStreetId # car.currentStreetId
    /\ arrivalLocation(findStreet(streetList, otherCar.currentStreetId), otherCar.direction)
         = intersectionLocationId
    \* both within COLLISION_TIME_WINDOW = 0.3 of the street
    /\ 10 * distanceToEnd(car) < 3 * ProgressScale
    /\ 10 * distanceToEnd(otherCar) < 3 * ProgressScale
    /\ collisionAnalysis.isColliding
    /\ priorityAboveZero(collisionPriority(car, otherCar, collisionAnalysis))

\* carManager.js:1276-1279 the first of the candidates with the highest priority
mostCritical(candidates, priority) ==
    CHOOSE c \in candidates :
        /\ \A j \in candidates : j < c => priorityAbove(priority[c], priority[j])
        /\ \A j \in candidates : j > c => ~priorityAbove(priority[j], priority[c])

\* carManager.js:1280-1288 what is reported of the vehicle found: k is its index in allCars
crossTraffic(k, collisionAnalysis) ==
    [found |-> TRUE, car |-> k,
     shouldStop |-> collisionAnalysis.car1MovingToward /\ collisionAnalysis.car2MovingToward,
     car1MovingToward |-> collisionAnalysis.car1MovingToward]

criticalAt(k, car, allCars, streetList, locations) ==
    crossTraffic(k, analyzeCarCollision(car, allCars[k], streetList, locations))

\* carManager.js:1276-1288
criticalAmong(candidates, car, allCars, streetList, locations) ==
    IF candidates = {} THEN NoCrossTraffic
    ELSE criticalAt(mostCritical(candidates,
                                 [k \in candidates |->
                                     collisionPriority(car, allCars[k],
                                         analyzeCarCollision(car, allCars[k], streetList,
                                                             locations))]),
                    car, allCars, streetList, locations)

\* carManager.js:1198-1289 the most critical vehicle on another street of the location
\* ahead; car is its index in allCars
findCrossTrafficCar(car, allCars, streetList, locations) ==
    IF findStreet(streetList, car.currentStreetId) = NoStreet
       \/ 4 * distanceToEnd(car) > ProgressScale
    THEN NoCrossTraffic
    ELSE criticalAmong(
             {k \in DOMAIN allCars :
                 criticalCollision(car, allCars[k],
                     analyzeCarCollision(car, allCars[k], streetList, locations),
                     streetList,
                     arrivalLocation(findStreet(streetList, car.currentStreetId),
                                     car.direction))},
             car, allCars, streetList, locations)

\* carManager.js:1397 Math.random() * 0.1, on the scale of calculateDeadlockPriority below
JitterRange == 499
\* the model draws the jitter from JitterLevels + 1 evenly spaced values, 0 the first
JitterLevels == 1
JitterValues == {(k * JitterRange) \div JitterLevels : k \in 0..JitterLevels}

\* carManager.js:1374-1400 on a scale of ProgressScale / 5 per priority point: speed * 10,
\* (1 - distanceToIntersection) * 5, the turn bonus and the random term
calculateDeadlockPriority(car, streetList, jitter) ==
    LET point == ProgressScale \div 5
        currentStreet == findStreet(streetList, car.currentStreetId)
    IN (car.speed * 10 * point) \div SpeedScale
       + (IF currentStreet # NoStreet THEN ProgressScale - distanceToEnd(car) ELSE 0)
       + point * (CASE car.nextTurn = "straight" -> 3
                    [] car.nextTurn = "right" -> 2
                    [] car.nextTurn = "left" -> 1
                    [] car.nextTurn = "uturn" -> 0
                    [] OTHER -> 1)
       + jitter

NoDeadlock == [hasDeadlock |-> FALSE, shouldProceed |-> FALSE]

\* carManager.js:1306-1325 whether car finds otherCar standing near it and colliding
deadlockedWith(car, otherCar, between) ==
    /\ otherCar.id # car.id
    /\ ~otherCar.reachedDestination
    /\ ~(otherCar.speed > 1)
    /\ ~(otherCar.timeNotMoving < 2 * TicksPerSecond)
    /\ between.measured
    /\ between.distance2 < (80 * Pixel) * (80 * Pixel)
    /\ between.isColliding

\* carManager.js:1341-1358
shouldProceed(car, otherCar, carPriority, otherCarPriority) ==
    IF carPriority > otherCarPriority THEN TRUE
    ELSE IF otherCarPriority > carPriority THEN FALSE
    ELSE car.id < otherCar.id

\* carManager.js:1327-1364 the decision against the first of the deadlocked vehicles
resolveDeadlock(car, allCars, deadlocked, streetList, jitter) ==
    IF deadlocked = {} THEN NoDeadlock
    ELSE [hasDeadlock |-> TRUE,
          shouldProceed |->
              shouldProceed(car, allCars[least(deadlocked)],
                  calculateDeadlockPriority(car, streetList, jitter[1]),
                  calculateDeadlockPriority(allCars[least(deadlocked)], streetList,
                                            jitter[2]))]

\* carManager.js:1299-1365; jitter is the pair of random terms of the two priorities the
\* call computes, the vehicle's own first.  Identifiers are compared as the program
\* compares its id strings: the model numbers the vehicles in the order of those strings.
detectAndResolveDeadlock(car, allCars, streetList, locations, jitter) ==
    IF car.timeNotMoving < 3 * TicksPerSecond THEN NoDeadlock
    ELSE resolveDeadlock(car, allCars,
             {k \in DOMAIN allCars :
                 deadlockedWith(car, allCars[k],
                     analyzeCarCollision(car, allCars[k], streetList, locations))},
             streetList, jitter)

\* =================================================================
\*  Vehicles: updateCar
\* =================================================================

\* array[Math.floor(Math.random() * array.length)]
pick(list, random) == list[(random * Len(list)) \div RandomSteps + 1]

\* the model's lights stand at the first location; light i controls the i-th street that
\* touches it (trafficLightManager.js:39-120 makes them in that order)
lightStreetId(streetList, i) ==
    LET touching == connectedTo(streetList, locationId(1))
    IN IF i \in DOMAIN touching THEN touching[i].id ELSE NullId

\* carManager.js:974-1011; favourLots is the draw Math.random() < 0.7
generateNewDestination(currentLocationId, locations, streetList, random, favourLots) ==
    LET known == SelectSeq(LocationList, LAMBDA l : l \in locations)
        reachableLocations ==
            SelectSeq(known, LAMBDA l : l.id # currentLocationId
                                        /\ Len(connectedTo(streetList, l.id)) > 0)
        otherLocations == SelectSeq(known, LAMBDA l : l.id # currentLocationId)
        parkingLots ==
            SelectSeq(reachableLocations, LAMBDA l : Len(connectedTo(streetList, l.id)) = 1)
    IN IF Len(reachableLocations) = 0
       THEN IF Len(otherLocations) > 0 THEN pick(otherLocations, random).id
            ELSE currentLocationId
       ELSE IF Len(parkingLots) > 0 /\ favourLots THEN pick(parkingLots, random).id
       ELSE pick(reachableLocations, random).id

\* carManager.js:1434-1464
checkForOncomingTrafficAdvanced(car, allCars) ==
    \E k \in DOMAIN allCars :
       LET oncomingCar == allCars[k]
           distance == Abs(oncomingCar.progress - car.progress)
           speed == IF oncomingCar.speed = 0 THEN SpeedScale \div 10 ELSE oncomingCar.speed
       IN /\ oncomingCar.id # car.id
          /\ oncomingCar.currentStreetId = car.currentStreetId
          /\ oncomingCar.direction # car.direction
          /\ ~oncomingCar.reachedDestination
          /\ IF oncomingCar.nextTurn \in {"straight", "right", Null}
             THEN distance * SpeedScale < 3 * ProgressScale * speed
                  /\ 2 * distance < ProgressScale
             ELSE IF oncomingCar.nextTurn = "left" THEN FALSE
             ELSE 10 * distance < 3 * ProgressScale

\* carManager.js:579-630 what one relevant light asks of the vehicle
lightVerdict(light, car, streetLength, allCars) ==
    LET distanceToIntersection == distanceToEnd(car)
        distanceToIntersectionPixels == (distanceToIntersection * streetLength) \div ProgressScale
        hasEnteredIntersection == distanceToIntersectionPixels < LOCATION_RADIUS
        inZone == 10 * distanceToIntersection < 3 * ProgressScale
        \* STOP_LINE_DISTANCE = LOCATION_RADIUS * 0.8 / streetLength
        beforeStopLine ==
            10 * distanceToIntersection * streetLength > 8 * LOCATION_RADIUS * ProgressScale
        wellBeforeStopLine ==
            10 * distanceToIntersection * streetLength > 12 * LOCATION_RADIUS * ProgressScale
    IN IF hasEnteredIntersection THEN "go"
       ELSE IF light.state = "red" /\ inZone /\ beforeStopLine THEN "stop"
       ELSE IF light.state = "yellow" /\ inZone /\ wellBeforeStopLine THEN "stop"
       ELSE IF light.state = "green" /\ car.nextTurn = "left"
               /\ 5 * distanceToIntersection < ProgressScale
               /\ checkForOncomingTrafficAdvanced(car, allCars)
       THEN "yield"
       ELSE "go"

\* the end-of-street test without the gate on isStoppedForCollision
endOfStreetDueUngated(car, shouldStop, hasCrossTraffic, hasCarAhead) ==
    /\ \/ car.progress >= ProgressScale /\ car.direction = "forward"
       \/ car.progress <= 0 /\ car.direction = "backward"
    /\ car.speed > 1

\* carManager.js:731-738 the end-of-street logic runs for a vehicle that is at the end,
\* moving, and not held by collision avoidance
endOfStreetDue(car, shouldStop, hasCrossTraffic, hasCarAhead) ==
    /\ \/ car.progress >= ProgressScale /\ car.direction = "forward"
       \/ car.progress <= 0 /\ car.direction = "backward"
    /\ car.speed > 1
    /\ ~(shouldStop /\ (hasCrossTraffic \/ hasCarAhead))

\* progress 0.05 or 0.95, 0.01 or 0.99: the fraction percent / 100 from the start of a
\* street travelled in direction
entryProgress(direction, percent) ==
    IF direction = "forward" THEN (percent * ProgressScale) \div 100
    ELSE ProgressScale - (percent * ProgressScale) \div 100

\* the end-of-street logic with a parking-lot exit that keeps the direction of arrival
leaveStreetStraightOn(car, updatedCar, currentStreet, streetList, locations, cache, chance) ==
    LET nextLocationId == arrivalLocation(currentStreet, updatedCar.direction)
        connectedStreets == connectedTo(streetList, nextLocationId)
        isParkingLot == Len(connectedStreets) = 1
        parked == [car |-> [updatedCar EXCEPT !.reachedDestination = TRUE], cache |-> cache]
        carId == IF updatedCar.originalId # NullId THEN updatedCar.originalId
                 ELSE <<"car", Numerals[updatedCar.id], "0">>
        onto(nextStreetInfo, destinationId) ==
            [updatedCar EXCEPT !.destinationId = destinationId,
                               !.currentStreetId = nextStreetInfo.street.id,
                               !.direction = nextStreetInfo.direction,
                               !.progress = entryProgress(nextStreetInfo.direction, 5),
                               !.nextTurn = nextStreetInfo.turn,
                               !.speed = Max(updatedCar.speed, SpeedScale \div 10),
                               !.waitingToTurnLeft = FALSE,
                               !.reachedDestination = FALSE,
                               !.streetsTraveled = @ + 1,
                               !.totalTravelTime = @ + chance.elapsed]
        turnedBack(destinationId, percent) ==
            LET newDirection == IF updatedCar.direction = "forward" THEN "backward"
                                ELSE "forward"
            IN [updatedCar EXCEPT !.destinationId = destinationId,
                                  !.direction = newDirection,
                                  !.progress = entryProgress(newDirection, percent),
                                  !.nextTurn = "uturn",
                                  !.speed = SpeedScale \div 10,
                                  !.waitingToTurnLeft = FALSE,
                                  !.reachedDestination = FALSE]
    IN IF findLocation(locations, nextLocationId) = NoLocation THEN parked
       ELSE IF isParkingLot
       THEN LET exitStreet == connectedStreets[1]
                allParkingLots ==
                    SelectSeq(LocationList,
                              LAMBDA l : /\ l \in locations
                                         /\ Len(connectedTo(streetList, l.id)) = 1
                                         /\ l.id # nextLocationId)
                exitDirection == updatedCar.direction
            IN IF Len(allParkingLots) > 0
               THEN [car |-> onto([street |-> exitStreet, direction |-> exitDirection,
                                   turn |-> Null],
                                  pick(allParkingLots, chance.random).id),
                     cache |-> cache]
               ELSE parked
       ELSE IF nextLocationId = updatedCar.destinationId
       THEN LET newDestinationId ==
                    generateNewDestination(nextLocationId, locations, streetList,
                                           chance.random, chance.favourLots)
                answer == findBestNextStreet(nextLocationId, newDestinationId,
                                             updatedCar.currentStreetId, streetList,
                                             locations, carId, cache, chance.random)
            IN IF answer.decision = NoRoute \/ answer.decision.street = NoStreet
               THEN [car |-> turnedBack(newDestinationId, 1), cache |-> answer.cache]
               ELSE [car |-> onto(answer.decision, newDestinationId),
                     cache |-> answer.cache]
       ELSE LET answer == findBestNextStreet(nextLocationId, updatedCar.destinationId,
                                             updatedCar.currentStreetId, streetList,
                                             locations, carId, cache, chance.random)
            IN IF answer.decision = NoRoute \/ answer.decision.street = NoStreet
               THEN IF Len(connectedStreets) = 0 THEN [parked EXCEPT !.cache = answer.cache]
                    ELSE [car |-> turnedBack(updatedCar.destinationId, 5),
                          cache |-> answer.cache]
               ELSE [car |-> onto(answer.decision, updatedCar.destinationId),
                     cache |-> answer.cache]

\* carManager.js:738-915 what becomes of a vehicle whose end-of-street logic runs; chance
\* holds the random draws of the call and the time the clock shows the vehicle to have
\* spent on its street
leaveStreet(car, updatedCar, currentStreet, streetList, locations, cache, chance) ==
    LET nextLocationId == arrivalLocation(currentStreet, updatedCar.direction)
        connectedStreets == connectedTo(streetList, nextLocationId)
        isParkingLot == Len(connectedStreets) = 1
        parked == [car |-> [updatedCar EXCEPT !.reachedDestination = TRUE], cache |-> cache]
        carId == IF updatedCar.originalId # NullId THEN updatedCar.originalId
                 ELSE <<"car", Numerals[updatedCar.id], "0">>
        onto(nextStreetInfo, destinationId) ==
            [updatedCar EXCEPT !.destinationId = destinationId,
                               !.currentStreetId = nextStreetInfo.street.id,
                               !.direction = nextStreetInfo.direction,
                               !.progress = entryProgress(nextStreetInfo.direction, 5),
                               !.nextTurn = nextStreetInfo.turn,
                               !.speed = Max(updatedCar.speed, SpeedScale \div 10),
                               !.waitingToTurnLeft = FALSE,
                               !.reachedDestination = FALSE,
                               !.streetsTraveled = @ + 1,
                               !.totalTravelTime = @ + chance.elapsed]
        turnedBack(destinationId, percent) ==
            LET newDirection == IF updatedCar.direction = "forward" THEN "backward"
                                ELSE "forward"
            IN [updatedCar EXCEPT !.destinationId = destinationId,
                                  !.direction = newDirection,
                                  !.progress = entryProgress(newDirection, percent),
                                  !.nextTurn = "uturn",
                                  !.speed = SpeedScale \div 10,
                                  !.waitingToTurnLeft = FALSE,
                                  !.reachedDestination = FALSE]
    IN IF findLocation(locations, nextLocationId) = NoLocation THEN parked
       ELSE IF isParkingLot
       THEN LET exitStreet == connectedStreets[1]
                allParkingLots ==
                    SelectSeq(LocationList,
                              LAMBDA l : /\ l \in locations
                                         /\ Len(connectedTo(streetList, l.id)) = 1
                                         /\ l.id # nextLocationId)
                exitDirection == IF exitStreet.from = nextLocationId THEN "forward"
                                 ELSE "backward"
            IN IF Len(allParkingLots) > 0
               THEN [car |-> onto([street |-> exitStreet, direction |-> exitDirection,
                                   turn |-> Null],
                                  pick(allParkingLots, chance.random).id),
                     cache |-> cache]
               ELSE parked
       ELSE IF nextLocationId = updatedCar.destinationId
       THEN LET newDestinationId ==
                    generateNewDestination(nextLocationId, locations, streetList,
                                           chance.random, chance.favourLots)
                answer == findBestNextStreet(nextLocationId, newDestinationId,
                                             updatedCar.currentStreetId, streetList,
                                             locations, carId, cache, chance.random)
            IN IF answer.decision = NoRoute \/ answer.decision.street = NoStreet
               THEN [car |-> turnedBack(newDestinationId, 1), cache |-> answer.cache]
               ELSE [car |-> onto(answer.decision, newDestinationId),
                     cache |-> answer.cache]
       ELSE LET answer == findBestNextStreet(nextLocationId, updatedCar.destinationId,
                                             updatedCar.currentStreetId, streetList,
                                             locations, carId, cache, chance.random)
            IN IF answer.decision = NoRoute \/ answer.decision.street = NoStreet
               THEN IF Len(connectedStreets) = 0 THEN [parked EXCEPT !.cache = answer.cache]
                    ELSE [car |-> turnedBack(updatedCar.destinationId, 5),
                          cache |-> answer.cache]
               ELSE [car |-> onto(answer.decision, updatedCar.destinationId),
                     cache |-> answer.cache]

NoNote == [collisionStop |-> FALSE, granted |-> FALSE, targetSpeed |-> 0, shouldStop |-> FALSE,
           yielded |-> FALSE]

\* carManager.js:511-530 the target speed behind the vehicle ahead, given the analysis of
\* the two (NotMeasured where nothing is ahead)
followCarAhead(car, aheadSpeed, collisionAnalysis) ==
    IF collisionAnalysis.measured /\ collisionAnalysis.distance < SAFE_FOLLOWING_DISTANCE
       /\ collisionAnalysis.car1MovingToward
    THEN IF collisionAnalysis.distance < MINIMUM_DISTANCE
         THEN [targetSpeed |-> 0, shouldStop |-> TRUE]
         ELSE [targetSpeed |->
                   Min(car.preferredSpeed,
                       (aheadSpeed * (SAFE_FOLLOWING_DISTANCE + collisionAnalysis.distance))
                         \div (2 * SAFE_FOLLOWING_DISTANCE)),
               shouldStop |-> FALSE]
    ELSE [targetSpeed |-> car.preferredSpeed, shouldStop |-> FALSE]

\* carManager.js:496-530; carAhead is the index findCarAhead gave
following(car, carAhead, allCars, streetList, locations) ==
    IF carAhead = 0 THEN followCarAhead(car, 0, NotMeasured)
    ELSE followCarAhead(car, allCars[carAhead].speed,
                        analyzeCarCollision(car, allCars[carAhead], streetList, locations))

\* carManager.js:533-544
yieldToCrossTraffic(followed, crossTrafficAnalysis) ==
    IF /\ crossTrafficAnalysis.found
       /\ crossTrafficAnalysis.shouldStop
       /\ crossTrafficAnalysis.car1MovingToward
    THEN [targetSpeed |-> 0, shouldStop |-> TRUE, crossTrafficBlocking |-> TRUE]
    ELSE [targetSpeed |-> followed.targetSpeed, shouldStop |-> followed.shouldStop,
          crossTrafficBlocking |-> FALSE]

\* carManager.js:556-566
overrideDeadlock(car, held, deadlockAnalysis) ==
    IF deadlockAnalysis.hasDeadlock /\ deadlockAnalysis.shouldProceed
    THEN [targetSpeed |-> car.preferredSpeed, shouldStop |-> FALSE,
          crossTrafficBlocking |-> FALSE, granted |-> TRUE,
          yielded |-> held.crossTrafficBlocking]
    ELSE [targetSpeed |-> held.targetSpeed, shouldStop |-> held.shouldStop,
          crossTrafficBlocking |-> held.crossTrafficBlocking, granted |-> FALSE,
          yielded |-> held.crossTrafficBlocking]

\* carManager.js:547-567
avoidCollisions(car, held, allCars, streetList, locations, jitter) ==
    overrideDeadlock(car, held,
        IF held.shouldStop \/ car.speed < 1
        THEN detectAndResolveDeadlock(car, allCars, streetList, locations, jitter)
        ELSE NoDeadlock)

\* carManager.js:570-592 what the lights that face the vehicle tell it
lightVerdicts(car, currentStreet, streetLength, streetList, lights, allCars) ==
    {lightVerdict(lights[i], car, streetLength, allCars) :
        i \in {k \in DOMAIN lights :
                  /\ lightStreetId(streetList, lights[k].streetId) = car.currentStreetId
                  /\ arrivalLocation(currentStreet, car.direction) = locationId(1)}}

\* carManager.js:570-641 the plan of the tick: collisionStop is shouldStop as collision
\* avoidance left it (l.567)
obeyLights(released, verdicts) ==
    [targetSpeed |-> IF ~released.crossTrafficBlocking /\ verdicts \ {"go"} # {} THEN 0
                     ELSE released.targetSpeed,
     shouldStop |-> released.shouldStop
                    \/ (~released.crossTrafficBlocking /\ verdicts \ {"go"} # {}),
     waitingToTurnLeft |-> ~released.crossTrafficBlocking /\ "yield" \in verdicts,
     collisionStop |-> released.shouldStop,
     granted |-> released.granted,
     yielded |-> released.yielded]

\* carManager.js:651-660
isApproachingTurn(car) ==
    /\ car.nextTurn \in {"left", "right"}
    /\ 5 * distanceToEnd(car) < ProgressScale

\* carManager.js:656-660
turnTargetSpeed(car, targetSpeed) ==
    IF isApproachingTurn(car) THEN Min(targetSpeed, (car.preferredSpeed * 6) \div 10)
    ELSE targetSpeed

\* carManager.js:663-672
deceleration(car, shouldStop, targetSpeed) ==
    IF shouldStop /\ car.speed > targetSpeed + (2 * SpeedScale) \div 10
    THEN EMERGENCY_DECELERATION
    ELSE IF isApproachingTurn(car) /\ ~shouldStop THEN TURN_DECELERATION
    ELSE DECELERATION

\* the speed update without the cap at the target speed
newSpeedUncapped(car, targetSpeed, braking, deltaTime) ==
    IF car.speed < targetSpeed
    THEN car.speed + ACCELERATION * deltaTime
    ELSE IF car.speed > targetSpeed
    THEN Max(car.speed - braking * deltaTime, Max(0, targetSpeed))
    ELSE car.speed

\* carManager.js:673-677
newSpeed(car, targetSpeed, braking, deltaTime) ==
    IF car.speed < targetSpeed
    THEN Min(car.speed + ACCELERATION * deltaTime, targetSpeed)
    ELSE IF car.speed > targetSpeed
    THEN Max(car.speed - braking * deltaTime, Max(0, targetSpeed))
    ELSE car.speed

\* carManager.js:643, 680-715
advance(car, speed, shouldStop, waitingToTurnLeft, deltaTime) ==
    [car EXCEPT
        !.waitingToTurnLeft = waitingToTurnLeft,
        !.speed = speed,
        !.stops = IF car.speed > SpeedScale \div 10 /\ speed < SpeedScale \div 10
                     /\ shouldStop
                  THEN @ + 1 ELSE @,
        !.timeNotMoving = IF speed < SpeedScale \div 10 THEN @ + deltaTime ELSE @,
        !.progress = IF car.direction = "forward" THEN @ + speed * deltaTime
                     ELSE @ - speed * deltaTime]

\* carManager.js:651-715
steer(car, plan, targetSpeed, deltaTime) ==
    advance(car,
            newSpeed(car, targetSpeed, deceleration(car, plan.shouldStop, targetSpeed),
                     deltaTime),
            plan.shouldStop, plan.waitingToTurnLeft, deltaTime)

\* what updateCar hands back, with the notes of the tick: targetSpeed and shouldStop are
\* the two as the light check leaves them (l.632-635), yielded is whether the cross-traffic
\* rule set the target speed to 0 (l.537-543)
noted(moved, plan) ==
    [car |-> moved.car, cache |-> moved.cache,
     note |-> [collisionStop |-> plan.collisionStop, granted |-> plan.granted,
               targetSpeed |-> plan.targetSpeed, shouldStop |-> plan.shouldStop,
               yielded |-> plan.yielded]]

\* carManager.js:731-919
arrive(car, updatedCar, plan, hasCrossTraffic, hasCarAhead, currentStreet, streetList, locations, cache, chance) ==
    IF endOfStreetDue(updatedCar, plan.shouldStop, hasCrossTraffic, hasCarAhead)
    THEN noted(leaveStreet(car, updatedCar, currentStreet, streetList, locations, cache,
                           chance), plan)
    ELSE noted([car |-> updatedCar, cache |-> cache], plan)

\* carManager.js:643-919
drive(car, plan, hasCrossTraffic, hasCarAhead, currentStreet, streetList, locations, deltaTime, cache, chance) ==
    arrive(car, steer(car, plan, turnTargetSpeed(car, plan.targetSpeed), deltaTime),
           plan, hasCrossTraffic, hasCarAhead, currentStreet, streetList, locations,
           cache, chance)

\* carManager.js:496-919
updateCarOnStreet(car, currentStreet, carAhead, crossTrafficAnalysis, streetLength, streetList, locations, lights, deltaTime, allCars, cache, chance) ==
    drive(car,
          obeyLights(avoidCollisions(car,
                                     yieldToCrossTraffic(
                                         following(car, carAhead, allCars, streetList,
                                                   locations),
                                         crossTrafficAnalysis),
                                     allCars, streetList, locations, chance.jitter),
                     lightVerdicts(car, currentStreet, streetLength, streetList, lights,
                                   allCars)),
          crossTrafficAnalysis.found, carAhead # 0, currentStreet, streetList, locations,
          deltaTime, cache, chance)

\* carManager.js:594-598 the length of the street on the canvas
lengthOf(fromLocation, toLocation) ==
    (Abs(toLocation.x - fromLocation.x) + Abs(toLocation.y - fromLocation.y)) * GridStep

\* carManager.js:488-494
updateCarOn(car, currentStreet, streetList, locations, lights, deltaTime, allCars, cache, chance) ==
    IF currentStreet = NoStreet \/ findLocation(locations, currentStreet.from) = NoLocation
       \/ findLocation(locations, currentStreet.to) = NoLocation
    THEN [car |-> [car EXCEPT !.reachedDestination = TRUE], cache |-> cache,
          note |-> NoNote]
    ELSE updateCarOnStreet(car, currentStreet, findCarAhead(car, allCars),
                           findCrossTrafficCar(car, allCars, streetList, locations),
                           lengthOf(findLocation(locations, currentStreet.from),
                                    findLocation(locations, currentStreet.to)),
                           streetList, locations, lights, deltaTime, allCars, cache,
                           chance)

\* carManager.js:488-920; chance holds the random draws of the call.  The result is the
\* updated vehicle, the routing cache after the call, and two notes for the history:
\* whether collision avoidance held the vehicle (shouldStop at l.567) and whether the
\* deadlock override was granted (l.560)
updateCar(car, streetList, locations, lights, deltaTime, allCars, cache, chance) ==
    IF car.reachedDestination THEN [car |-> car, cache |-> cache, note |-> NoNote]
    ELSE updateCarOn(car, findStreet(streetList, car.currentStreetId), streetList,
                     locations, lights, deltaTime, allCars, cache, chance)

\* the vehicles updated so far, with the one of this step
updated(done, step) ==
    [cars |-> Append(done.cars, step.car), cache |-> step.cache,
     notes |-> Append(done.notes, step.note)]

RECURSIVE updateEachCar(_, _, _, _, _, _, _, _)
\* cars.map(car => updateCar(..., cars)): every call is given the array as it was before
\* the frame, and finds the routing cache as the calls before it left it
updateEachCar(k, cars, streetList, locations, lights, deltaTime, chances, done) ==
    IF k > Len(cars) THEN done
    ELSE updateEachCar(k + 1, cars, streetList, locations, lights, deltaTime, chances,
                       updated(done,
                               updateCar(cars[k], streetList, locations, lights,
                                         deltaTime, cars, done.cache, chances[k])))

\* carManager.js:1476-1485
simulateTraffic(cars, streetList, locations, lights, deltaTime, cache, chances) ==
    LET cappedDeltaTime == Min(deltaTime, DeltaCap)
    IN updateEachCar(1, cars, streetList, locations, lights, cappedDeltaTime, chances,
                     [cars |-> <<>>, cache |-> cache, notes |-> <<>>])

\* =================================================================
\*  Vehicles: the frames of a panel at a corner of two streets
\* =================================================================
\* vehicle updates per behaviour
MaxCarFrames == 2
\* a frame's deltaTime ranges over 1..MaxFrameDelta time units before the cap
MaxFrameDelta == 3

\* unnamed/part_001:380 STUCK_THRESHOLD
isStuck(car) ==
    /\ ~car.reachedDestination
    /\ car.timeNotMoving > 30 * TicksPerSecond
    /\ car.speed < 1

\* the metrics with the travel time averaged over the vehicles
publishMetricsPerCar(allCars, published) ==
    IF Len(allCars) = 0 THEN published
    ELSE [published |-> TRUE,
          totalCars |-> Len(allCars),
          stopsPerCar |-> <<SumOver([i \in DOMAIN allCars |-> allCars[i].stops],
                                    DOMAIN allCars), Len(allCars)>>,
          timeSpentWaiting |-> SumOver([i \in DOMAIN allCars |-> allCars[i].timeNotMoving],
                                       DOMAIN allCars),
          averageTravelTime |->
              <<SumOver([i \in DOMAIN allCars |-> allCars[i].totalTravelTime],
                        DOMAIN allCars), Len(allCars)>>]

\* unnamed/part_001:403-441 the metrics of a frame, published for a set that is not empty.
\* A quotient a / b is kept as the pair <<a, b>>.  (averageSpeed, which is measured
\* against the wall clock, is left out.)
publishMetrics(allCars, published) ==
    IF Len(allCars) = 0 THEN published
    ELSE LET totalStops == SumOver([i \in DOMAIN allCars |-> allCars[i].stops],
                                   DOMAIN allCars)
             totalStreetsTraveled ==
                 SumOver([i \in DOMAIN allCars |-> allCars[i].streetsTraveled],
                         DOMAIN allCars)
             totalTravelTime ==
                 SumOver([i \in DOMAIN allCars |-> allCars[i].totalTravelTime],
                         DOMAIN allCars)
         IN [published |-> TRUE,
             totalCars |-> Len(allCars),
             stopsPerCar |-> <<totalStops, Len(allCars)>>,
             timeSpentWaiting |->
                 SumOver([i \in DOMAIN allCars |-> allCars[i].timeNotMoving],
                         DOMAIN allCars),
             averageTravelTime |->
                 IF totalStreetsTraveled > 0 THEN <<totalTravelTime, totalStreetsTraveled>>
                 ELSE <<0, 1>>]

\* the sync effect with every vehicle of the global array taken for new
syncLocalCarsAll(local, global) ==
    local \o [i \in DOMAIN global |->
                 [global[i] EXCEPT !.id = CHOOSE n \in DOMAIN Numerals :
                                              global[i].id = <<"car", Numerals[n], "0">>,
                                   !.originalId = global[i].id]]

\* unnamed/part_001:216-239 the effect that runs when the panel's or the global array has
\* changed: every global vehicle whose id is no originalId in the panel is appended as a
\* copy under a new id.  The new id starts with the global id, so it sorts where the id of
\* an earlier copy did: the number of the global id stands for it.
syncLocalCars(local, global) ==
    syncLocalCarsAll(local,
                     SelectSeq(global,
                               LAMBDA car : \A i \in DOMAIN local :
                                               local[i].originalId # car.id))

\* what the clock can show a vehicle to have spent on the street it leaves
ElapsedValues == {TicksPerSecond, 2 * TicksPerSecond}

\* unnamed/part_001:350-455 the setLocalCars updater of a frame: simulateTraffic, then the
\* stuck vehicles are dropped and the metrics published (no vehicle of the model reaches
\* MAX_CAR_LIFETIME); the sync effect follows the render of the new array.  A location with two streets has no
\* lights, so the light updater of the same frame returns what it is given (l.337).
\* The random draws are enumerated only where the code can come to use them, and the
\* calls of one frame draw the same jitter.
setLocalCars ==
    /\ frames < MaxCarFrames
    /\ Len(localCars) # 0
    /\ \E deltaTime \in 1..MaxFrameDelta, random \in 0..(RandomSteps - 1),
          favourLots \in BOOLEAN, elapsed \in ElapsedValues,
          jitter \in JitterValues \X JitterValues :
          /\ (\A i \in DOMAIN localCars :
                 localCars[i].timeNotMoving < 2 * TicksPerSecond \/ localCars[i].speed > 1)
                => jitter = <<0, 0>>
          /\ (\A i \in DOMAIN localCars :
                 distanceToEnd(localCars[i]) > localCars[i].preferredSpeed * DeltaCap)
                => (random = 0 /\ favourLots /\ elapsed = TicksPerSecond)
          /\ \E w \in {simulateTraffic(localCars, streets, Locations, trafficLights,
                                        deltaTime, routingDecisions,
                                        [i \in DOMAIN localCars |->
                                            [random |-> random, favourLots |-> favourLots,
                                             elapsed |-> elapsed, jitter |-> jitter]])} :
                /\ localCars' = syncLocalCars(SelectSeq(w.cars, LAMBDA car : ~isStuck(car)),
                                              globalCars)
                /\ metrics' = publishMetrics(SelectSeq(w.cars, LAMBDA car : ~isStuck(car)),
                                             metrics)
                /\ routingDecisions' = w.cache
                /\ lastTick' = [ran |-> TRUE, deltaTime |-> Min(deltaTime, DeltaCap),
                                before |-> localCars, after |-> w.cars,
                                notes |-> w.notes,
                                jitter |-> jitter]
                /\ frames' = frames + 1
                /\ UNCHANGED <<lightVars, streets, lastRoute, firstDecision, tickVars, panelVars,
                             globalCars, parkingLotCars, lastSpawn>>

\* the values of an identifier that JavaScript takes for false: null or undefined, and
\* the empty string; likewise for the direction word
MissingIds == {NullId, <<>>}
MissingWords == {Null, ""}

\* createCar's null result
NoCar == [id |-> NullId]

\* createCar without its validation
createCarUnchecked(n, startLocationId, destinationId, startStreetId, direction, random) ==
    [id |-> <<"car", Numerals[n], "0">>,
     originalId |-> NullId,
     destinationId |-> destinationId,
     currentStreetId |-> startStreetId,
     direction |-> direction,
     progress |-> entryProgress(direction, 5),
     speed |-> 0,
     preferredSpeed |-> Min((SpeedScale * (6 * RandomSteps + 8 * random)) \div (10 * RandomSteps),
                            SpeedScale),
     reachedDestination |-> FALSE,
     stops |-> 0,
     timeNotMoving |-> 0,
     nextTurn |-> Null,
     waitingToTurnLeft |-> FALSE,
     streetsTraveled |-> 0,
     totalTravelTime |-> 0]

\* carManager.js:36-95; n stands for the time and random number of generateUniqueId, random
\* for the draw of the preferred speed
createCar(n, startLocationId, destinationId, startStreetId, direction, random) ==
    IF \/ startLocationId \in MissingIds
       \/ destinationId \in MissingIds
       \/ startStreetId \in MissingIds
       \/ direction \in MissingWords
    THEN NoCar
    ELSE createCarUnchecked(n, startLocationId, destinationId, startStreetId, direction,
                            random)

\* createCar (carManager.js:36-95) and unnamed/part_001:513-517: a vehicle of the panel;
\* the number n stands for its id string, and its twin group id is car-n
vehicle(n, streetIdOf, direction, progress, speed, timeNotMoving, destinationId) ==
    [id |-> n,
     originalId |-> <<"car", Numerals[n], "0">>,
     destinationId |-> destinationId,
     currentStreetId |-> streetIdOf,
     direction |-> direction,
     progress |-> progress,
     speed |-> speed,
     preferredSpeed |-> SpeedScale,
     reachedDestination |-> FALSE,
     stops |-> 0,
     timeNotMoving |-> timeNotMoving,
     nextTurn |-> Null,
     waitingToTurnLeft |-> FALSE,
     streetsTraveled |-> 0,
     totalTravelTime |-> 0]

\* the corner: street 1 runs from location 1 east to location 2, street 2 from location 3
\* south to location 1; locations 2 and 3 are dead ends
CornerStreets ==
    <<CHOOSE s \in StreetChoices : s.id = streetId(1),
      CHOOSE s \in StreetChoices : s.id = streetId(2)>>

\* a vehicle on street number s, distance short of the end it heads for; inbound ones head
\* for the corner
placed(s, inbound, distance, speed, timeNotMoving, destinationId) ==
    LET street == CornerStreets[s]
        direction == IF (street.to = locationId(1)) = inbound THEN "forward" ELSE "backward"
    IN [street |-> street.id, direction |-> direction,
        progress |-> IF direction = "forward" THEN ProgressScale - distance ELSE distance,
        speed |-> speed, timeNotMoving |-> timeNotMoving, destinationId |-> destinationId,
        \* the vehicles bound for location 3 are on their fourth street
        stops |-> IF destinationId = locationId(3) THEN 2 ELSE 0,
        streetsTraveled |-> IF destinationId = locationId(3) THEN 3 ELSE 0,
        totalTravelTime |-> IF destinationId = locationId(3) THEN 8 * TicksPerSecond ELSE 0]

\* what a vehicle has waited so far: next to nothing, just over three seconds, or the
\* thirty seconds of STUCK_THRESHOLD
Waited == {1, 3 * TicksPerSecond + 1, 30 * TicksPerSecond}

\* The vehicles of a scene: one nearing the corner on each street, at rest or at full
\* speed, and, where the two have stood for three seconds, perhaps a third one: standing
\* close behind the first, or about to reach the dead end of street 2.  Nothing in the program keeps vehicles apart: a vehicle is put on its
\* street at the entry mark whatever stands there (carManager.js:788, 906,
\* unnamed/part_001:499-523), and the deadlock override drives on "despite collision
\* risk" (carManager.js:565).
CarScenes ==
    LET first == {placed(1, TRUE, d * Pixel, v, t, locationId(3)) :
                     d \in {3, 10}, v \in {0, SpeedScale}, t \in Waited}
        second(a) == {placed(2, TRUE, d * Pixel, v, a.timeNotMoving, locationId(2)) :
                         d \in {10, 30}, v \in {0, SpeedScale}}
        third(a, b) ==
            IF a.speed # 0 \/ b.speed # 0 \/ a.timeNotMoving < 3 * TicksPerSecond THEN {}
            ELSE {placed(1, TRUE, a.progress + gap * Pixel, 0, a.timeNotMoving, locationId(3)) :
                     gap \in {20, 32}}
                 \cup {placed(2, FALSE, Pixel, SpeedScale, 1, locationId(3))}
        casts == UNION {UNION {{<<a, b>>} \cup {<<a, b, c>> : c \in third(a, b)} :
                                  b \in second(a)} : a \in first}
        orders(n) == {p \in [1..n -> 1..n] : \A i, j \in 1..n : i # j => p[i] # p[j]}
    IN UNION {{[i \in 1..Len(cast) |->
                   LET role == cast[order[i]]
                   IN [vehicle(i, role.street, role.direction, role.progress,
                               role.speed, role.timeNotMoving, role.destinationId)
                          EXCEPT !.stops = role.stops,
                                 !.streetsTraveled = role.streetsTraveled,
                                 !.totalTravelTime = role.totalTravelTime]] :
                 order \in orders(Len(cast))} : cast \in casts}

\* the vehicle as createCar returned it and App's array keeps it: the vehicles bound for
\* location 3 set out from location 2, the others from location 3
globalCar(car) ==
    [createCarUnchecked(car.id, NullId, car.destinationId,
                        IF car.destinationId = locationId(3) THEN streetId(1)
                        ELSE streetId(2),
                        IF car.destinationId = locationId(3) THEN "backward" ELSE "forward",
                        RandomSteps - 1)
        EXCEPT !.preferredSpeed = car.preferredSpeed]

InitCars ==
    /\ streets = CornerStreets
    /\ routingDecisions = <<>>
    /\ lastRoute = NoCall
    /\ firstDecision = <<>>
    /\ lightsIdle
    /\ updateQueue = NoUpdates
    /\ carsSaw = NothingRead
    /\ localCars \in CarScenes
    /\ lastTick = NoTick
    /\ frames = 0
    /\ globalCars = [i \in DOMAIN localCars |-> globalCar(localCars[i])]
    /\ parkingLotCars = <<>>
    /\ metrics = NoMetrics
    /\ lastSpawn = NoSpawn
    /\ panelIdle

SpecCars == InitCars /\ [][setLocalCars]_vars

(***************************************************************************)
(* The editor: streets and locations are added and deleted while the       *)
(* panel keeps its lights in step (unnamed/part_001:242-324, 600-870,     *)
(* 947-980).  A light is modelled here by what identifies it, the location *)
(* it stands at and the street it controls.  The canvas is a hub           *)
(* (location 1) and four outer locations, each of which may be joined to   *)
(* the hub by one street.                                                  *)
(***************************************************************************)
EditLocations ==
    Locations \cup {[id |-> locationId(5), x |-> 0, y |-> 2]}
EditStreetChoices ==
    StreetChoices \cup {[id |-> streetId(4), from |-> locationId(5), to |-> locationId(1)]}

\* trafficLightManager.js:39-120: no light for two streets or fewer, otherwise one light
\* per connected street whose other end is among the locations handed in
lightsAt(intersection, connectedStreets, locationSet) ==
    IF Len(connectedStreets) <= 2 THEN <<>>
    ELSE LET otherEnd(s) == IF s.from = intersection.id THEN s.to ELSE s.from
             drawn == SelectSeq(connectedStreets,
                                LAMBDA s : \E l \in locationSet : l.id = otherEnd(s))
         IN  [i \in DOMAIN drawn |-> [locationId |-> intersection.id, streetId |-> drawn[i].id]]

\* unnamed/part_001:276, 288 lights.filter(light => light.locationId === id)
lightsOfLocation(lights, locId) == SelectSeq(lights, LAMBDA light : light.locationId = locId)

\* unnamed/part_001:294-305, 837-853: drop the location's lights and append new ones
rebuildLights(lights, intersection, connectedStreets, locationSet) ==
    SelectSeq(lights, LAMBDA light : light.locationId # intersection.id)
        \o lightsAt(intersection, connectedStreets, locationSet)

\* unnamed/part_001:310-321 the lights appended at once, location by location
RECURSIVE appendNewLights(_, _, _, _)
appendNewLights(lights, todo, streetList, locationSet) ==
    IF todo = {} THEN lights
    ELSE LET l == CHOOSE x \in todo : TRUE
         IN  appendNewLights(lights \o lightsAt(l, connectedTo(streetList, l.id), locationSet),
                             todo \ {l}, streetList, locationSet)

\* unnamed/part_001:242-324 the effect that runs when locations or streets have changed:
\* the light array it leaves and the 100 ms callbacks it schedules
lightEffect(lights, streetList, locationSet) ==
    LET \* l.281: a location with four streets and another number of lights
        needsRebuild(l) ==
            /\ Len(connectedTo(streetList, l.id)) = 4
            /\ Len(lightsOfLocation(lights, l.id)) # 4
        \* l.310: a location with more than two streets and no light
        needsLights(l) ==
            /\ ~needsRebuild(l)
            /\ Len(connectedTo(streetList, l.id)) > 2
            /\ Len(lightsOfLocation(lights, l.id)) = 0
    IN
    [ lights |-> appendNewLights(lights,
                                 {l \in locationSet : needsLights(l)},
                                 streetList, locationSet),
      timers |-> { [ delay |-> 100, intersection |-> l,
                     connectedStreets |-> connectedTo(streetList, l.id),
                     locations |-> locationSet ]
                   : l \in {x \in locationSet : needsRebuild(x)} } ]

\* the state after a change of streets and locations and the effect it triggers
afterEdit(streetList, locationSet, scheduled) ==
    /\ streets' = streetList
    /\ canvasLocations' = locationSet
    /\ trafficLights' = lightEffect(trafficLights, streetList, locationSet).lights
    /\ timers' = timers \cup scheduled
                        \cup lightEffect(trafficLights, streetList, locationSet).timers

editFrame ==
    UNCHANGED <<isSmartControl, lastSmartUpdate, smartDecision, pendingForced, pendingSwitch,
                stays,
                routingDecisions, lastRoute, firstDecision, tickVars, carVars, twinVars,
                heapVars>>

\* unnamed/part_001:600-870 handleLocationClick on a second location: a street between
\* two locations of the canvas, refused when it exists or an end already has four
\* streets; its 300 ms callback looks at both ends
handleLocationClick ==
    \E newStreet \in EditStreetChoices :
        /\ newStreet.id \notin drawnStreets
        /\ \E l \in canvasLocations : l.id = newStreet.from
        /\ \E l \in canvasLocations : l.id = newStreet.to
        /\ Len(connectedTo(streets, newStreet.from)) < 4
        /\ Len(connectedTo(streets, newStreet.to)) < 4
        /\ drawnStreets' = drawnStreets \cup {newStreet.id}
        /\ afterEdit(Append(streets, newStreet), canvasLocations,
                     {[ delay |-> 300, ends |-> <<newStreet.from, newStreet.to>>,
                        locations |-> canvasLocations ]})
        /\ editFrame

\* unnamed/part_001:976-980 handleStreetDelete
handleStreetDelete ==
    \E i \in DOMAIN streets :
        /\ afterEdit(SelectSeq(streets, LAMBDA s : s.id # streets[i].id), canvasLocations, {})
        /\ UNCHANGED drawnStreets
        /\ editFrame

\* unnamed/part_001:947-961 handleLocationDelete
handleLocationDelete ==
    \E l \in canvasLocations :
        /\ afterEdit(SelectSeq(streets, LAMBDA s : s.from # l.id /\ s.to # l.id),
                     canvasLocations \ {l}, {})
        /\ UNCHANGED drawnStreets
        /\ editFrame

\* unnamed/part_001:829-858 the callback of the click, for one end of the new street: a
\* rebuild if the location has exactly four streets now
rebuildEnd(lights, locId, locationSet) ==
    IF Len(connectedTo(streets, locId)) = 4 /\ \E l \in locationSet : l.id = locId
    THEN rebuildLights(lights, CHOOSE l \in locationSet : l.id = locId,
                       connectedTo(streets, locId), locationSet)
    ELSE lights

\* a pending callback runs.  The effect's callback (unnamed/part_001:285-307): nothing if
\* the location has four lights by now, otherwise a rebuild from the streets and locations
\* of the effect's render.  The click's callback (l.826-860): both ends of the street.
timeout ==
    \E timer \in timers :
        /\ trafficLights' =
               IF timer.delay = 300
               THEN rebuildEnd(rebuildEnd(trafficLights, timer.ends[1], timer.locations),
                               timer.ends[2], timer.locations)
               ELSE IF Len(lightsOfLocation(trafficLights, timer.intersection.id)) = 4
               THEN trafficLights
               ELSE rebuildLights(trafficLights, timer.intersection,
                                  timer.connectedStreets, timer.locations)
        /\ timers' = timers \ {timer}
        /\ UNCHANGED <<streets, canvasLocations, drawnStreets>>
        /\ editFrame

\* an empty canvas with the five locations placed
InitEdit ==
    /\ canvasLocations = EditLocations
    /\ drawnStreets = {}
    /\ timers = {}
    /\ twins = <<>>
    /\ travelled = <<>>
    /\ heapIdle
    /\ lightsIdle
    /\ routeIdle
    /\ updateQueue = NoUpdates
    /\ carsSaw = NothingRead
    /\ carsIdle

NextEdit == handleLocationClick \/ handleStreetDelete \/ handleLocationDelete \/ timeout
SpecEdit == InitEdit /\ [][NextEdit]_vars

\* =================================================================
\*  Vehicles leaving the parking lots
\* =================================================================
\* the panel holds fewer vehicles than this when a lot sends one out (50 in the program)
MaxSpawned == 2
\* createCar calls per behaviour
MaxAttempts == 3

\* unnamed/part_001:456-548 a parking lot that is due sends out a vehicle (left panel).
\* The arguments the panel hands createCar are the lot, a destination, one of the lot's
\* streets and the direction away from the lot; the call is also taken with any of them
\* missing.
spawnCar ==
    /\ lastSpawn.attempt < MaxAttempts
    /\ Len(localCars) < MaxSpawned
    /\ \E parkingLot \in DOMAIN parkingLotCars :
        /\ parkingLotCars[parkingLot] > 0
        /\ Len(connectedTo(streets, parkingLot)) > 0
        /\ \E startLocationId \in {parkingLot} \cup MissingIds,
              destinationId \in ((DOMAIN parkingLotCars) \ {parkingLot}) \cup MissingIds,
              i \in 0..Len(connectedTo(streets, parkingLot)),
              isMissing \in BOOLEAN,
              random \in 0..(RandomSteps - 1) :
            \E startStreetId \in (IF i = 0 THEN MissingIds
                                  ELSE {connectedTo(streets, parkingLot)[i].id}),
               direction \in (IF isMissing THEN MissingWords
                              ELSE IF i = 0 THEN {"forward", "backward"}
                              ELSE IF connectedTo(streets, parkingLot)[i].from = parkingLot
                              THEN {"forward"} ELSE {"backward"}) :
              \E newCar \in {createCar(Len(globalCars) + 1, startLocationId, destinationId,
                                       startStreetId, direction, random)} :
                /\ lastSpawn' = [attempt |-> lastSpawn.attempt + 1,
                                 startLocationId |-> startLocationId,
                                 destinationId |-> destinationId,
                                 startStreetId |-> startStreetId,
                                 direction |-> direction,
                                 created |-> newCar # NoCar]
                /\ IF newCar = NoCar
                   THEN UNCHANGED <<localCars, globalCars, parkingLotCars>>
                   ELSE /\ localCars' = Append(localCars,
                                               [newCar EXCEPT !.id = Len(globalCars) + 1,
                                                              !.originalId = newCar.id])
                        /\ globalCars' = Append(globalCars, newCar)
                        /\ parkingLotCars' =
                               [parkingLotCars EXCEPT ![parkingLot] = Max(0, @ - 1)]
                /\ UNCHANGED <<lightVars, routeVars, tickVars, lastTick, frames, metrics, panelVars>>

\* the corner with vehicles waiting in its two parking lots
InitSpawn ==
    /\ streets = CornerStreets
    /\ routingDecisions = <<>>
    /\ lastRoute = NoCall
    /\ firstDecision = <<>>
    /\ lightsIdle
    /\ updateQueue = NoUpdates
    /\ carsSaw = NothingRead
    /\ localCars = <<>>
    /\ lastTick = NoTick
    /\ frames = 0
    /\ globalCars = <<>>
    /\ parkingLotCars \in [{locationId(2), locationId(3)} -> 1..2]
    /\ metrics = NoMetrics
    /\ lastSpawn = NoSpawn
    /\ panelIdle

SpecSpawn == InitSpawn /\ [][spawnCar]_vars

\* =================================================================
\*  Twins: the copies of one global vehicle in the two panels
\* =================================================================
\* the three streets of the model meeting at location 1, in array order
HubStreets ==
    <<CHOOSE s \in StreetChoices : s.id = streetId(1),
      CHOOSE s \in StreetChoices : s.id = streetId(2),
      CHOOSE s \in StreetChoices : s.id = streetId(3)>>

\* street changes per twin and behaviour
MaxLegs == 3

\* frames a twin spends waiting per behaviour, in ticks of waiting time
MaxWaited == 2

\* where a frame can find a twin on its street: a pixel before the end, or a fifth of the
\* street before it (inside the zone in which a red light stops it)
TwinDistances == {Pixel, ProgressScale \div 5}

\* unnamed/part_001:350-455 a frame of one panel with its copy of the vehicle alone on the
\* canvas.  The street and direction of the copy are what the panel's earlier frames
\* left; its place on the street, its speed and the state of the panel's lights are
\* whatever the frames in between have made them.
twinFrame(side) ==
    /\ Len(travelled[side]) < MaxLegs
    /\ twins[side].timeNotMoving <= MaxWaited
    /\ twins[side].stops <= 1
    /\ \E distance \in TwinDistances, speed \in {0, SpeedScale},
          lightState \in {"red", "green"},
          deltaTime \in {1, MaxFrameDelta}, random \in 0..(RandomSteps - 1),
          favourLots \in BOOLEAN :
          /\ distance # Pixel => (random = 0 /\ favourLots /\ deltaTime = 1)
          /\ \E w \in {simulateTraffic(
                         <<[twins[side] EXCEPT
                              !.progress = IF twins[side].direction = "forward"
                                           THEN ProgressScale - distance ELSE distance,
                              !.speed = speed]>>,
                         streets, Locations,
                         [i \in DOMAIN streets |-> [streetId |-> i, state |-> lightState]],
                         deltaTime, routingDecisions,
                         <<[random |-> random, favourLots |-> favourLots,
                            elapsed |-> TicksPerSecond, jitter |-> <<0, 0>>]>>)} :
                /\ twins' = [twins EXCEPT ![side] = w.cars[1]]
                /\ routingDecisions' = w.cache
                /\ travelled' =
                       IF /\ w.cars[1].currentStreetId = twins[side].currentStreetId
                          /\ w.cars[1].direction = twins[side].direction
                       THEN travelled
                       ELSE [travelled EXCEPT
                                ![side] = Append(@, <<w.cars[1].currentStreetId,
                                                      w.cars[1].direction>>)]
    /\ UNCHANGED <<lightVars, streets, lastRoute, firstDecision, tickVars, carVars,
                   canvasLocations, drawnStreets, timers, heapVars>>

\* unnamed/part_001:216-239, 499-517: a vehicle leaves the parking lot at location 2 for
\* one of the other lots, and each panel holds its copy
InitTwins ==
    /\ streets = HubStreets
    /\ routingDecisions = <<>>
    /\ lastRoute = NoCall
    /\ firstDecision = <<>>
    /\ lightsIdle
    /\ updateQueue = NoUpdates
    /\ carsSaw = NothingRead
    /\ carsIdle
    /\ canvasLocations = {}
    /\ drawnStreets = {}
    /\ timers = {}
    /\ \E destinationId \in {locationId(1), locationId(3), locationId(4)},
          random \in 0..(RandomSteps - 1) :
          twins = [side \in Sides |->
                      syncLocalCars(<<>>, <<createCar(1, locationId(2), destinationId,
                                                      streetId(1), "backward", random)>>)[1]]
    /\ travelled = [side \in Sides |-> <<<<streetId(1), "backward">>>>]
    /\ heapIdle

NextTwins == \E side \in Sides : twinFrame(side)
SpecTwins == InitTwins /\ [][NextTwins]_vars

\* =================================================================
\*  Objects: the vehicle and light objects the two panels hold
\* =================================================================
\* vehicles App's cars array takes, lights per panel, street ends a vehicle passes
\* before it has arrived, frames a light stays in a state
MaxAppCars == 1
PanelLights == 1
MaxProgress == 3
LightPeriod == 1

\* references: one per vehicle of App's array, and per panel one per light and two per
\* vehicle (the object updateCar was given and the one it returns)
PanelObjects == PanelLights + 2 * MaxAppCars
Refs == 1..(MaxAppCars + 2 * PanelObjects)
AppPool(n) == {n}
PanelBase(side) == MaxAppCars + (IF side = "left" THEN 0 ELSE PanelObjects)
LightPool(side) == {PanelBase(side) + i : i \in 1..PanelLights}
CarPool(side, n) == {PanelBase(side) + PanelLights + 2 * n - 1,
                     PanelBase(side) + PanelLights + 2 * n}
carNumber(id) == CHOOSE n \in 1..MaxAppCars : Numerals[n] = id[2]
Free == [kind |-> "free"]
SharedState == {"cars", "streets", "locations", "routingDecisions"}

otherSide(side) == CHOOSE other \in Sides : other # side

RefsOf(list) == {list[i] : i \in DOMAIN list}

heldBy(refs, side) == RefsOf(refs[side].localCars) \cup RefsOf(refs[side].trafficLights)

\* a new object: the literal or spread expression that builds it
allocate(h, object, pool) ==
    LET ref == CHOOSE r \in pool : h[r] = Free /\ \A q \in pool : q < r => h[q] # Free
    IN [h |-> [h EXCEPT ![ref] = object], ref |-> ref]

\* objects no array refers to any longer cannot be seen again
collect(h, refs, app) ==
    [r \in Refs |->
        IF r \in RefsOf(app) \cup UNION {RefsOf(refs[side].localCars) \cup
                                         RefsOf(refs[side].trafficLights) : side \in Sides}
        THEN h[r] ELSE Free]

\* lights that are the objects of the other panel when it has any
RECURSIVE createLightsShared(_, _, _, _)
createLightsShared(h, refs, side, n) ==
    IF refs[otherSide(side)].trafficLights # <<>>
    THEN [h |-> h, lights |-> refs[otherSide(side)].trafficLights]
    ELSE IF n = 0 THEN [h |-> h, lights |-> <<>>]
    ELSE LET sofar == createLightsShared(h, refs, side, n - 1)
             a == allocate(sofar.h, [kind |-> "light", timer |-> 0,
                                     state |-> IF n = 1 THEN "green" ELSE "red"],
                          LightPool(side))
         IN [h |-> a.h, lights |-> Append(sofar.lights, a.ref)]

\* trafficLightManager.js:39-119 createIntersectionTrafficLights: one new object per
\* street, the first group green and the others red
RECURSIVE createLights(_, _, _, _)
createLights(h, refs, side, n) ==
    IF n = 0 THEN [h |-> h, lights |-> <<>>]
    ELSE LET sofar == createLights(h, refs, side, n - 1)
             a == allocate(sofar.h, [kind |-> "light", timer |-> 0,
                                     state |-> IF n = 1 THEN "green" ELSE "red"],
                          LightPool(side))
         IN [h |-> a.h, lights |-> Append(sofar.lights, a.ref)]

\* trafficLightManager.js:210-402, 1001-1008: updateTrafficLight adds to the timer of the
\* object it is given, changes its state when the timer has run out, and returns that
\* object; the array returned holds the same objects
updateLightObjects(h, lights) ==
    [r \in Refs |->
        IF r \in RefsOf(lights)
        THEN IF h[r].timer + 1 >= LightPeriod
             THEN [h[r] EXCEPT !.timer = 0,
                               !.state = IF @ = "green" THEN "red" ELSE "green"]
             ELSE [h[r] EXCEPT !.timer = @ + 1]
        ELSE h[r]]

\* carManager.js:488-930: the fields of the object updateCar returns for a vehicle that
\* has not arrived.  Its way counts the street ends it has passed: at the intersection
\* (an even count) it takes the street findBestNextStreet decided, at a parking lot (an
\* odd count) it turns round; at the end of its way it has arrived.
movedCar(car, moves, decision) ==
    IF ~moves THEN car
    ELSE [car EXCEPT !.progress = @ + 1,
                     !.reachedDestination = (car.progress + 1 >= MaxProgress),
                     !.street = IF car.progress % 2 = 0 THEN decision.street.id ELSE @]

\* carManager.js:488-491, 1476-1487: simulateTraffic maps updateCar over the array;
\* updateCar returns the object it was given for a vehicle that has arrived and a new
\* object for every other one, and asks findBestNextStreet at the end of a street
RECURSIVE updateCarObjects(_, _, _, _, _, _, _)
updateCarObjects(h, cars, i, moving, cache, random, side) ==
    IF i > Len(cars) THEN [h |-> h, cars |-> <<>>, cache |-> cache]
    ELSE IF h[cars[i]].reachedDestination
    THEN LET rest == updateCarObjects(h, cars, i + 1, moving, cache, random, side)
         IN [rest EXCEPT !.cars = <<cars[i]>> \o @]
    ELSE LET routed == IF i \in moving /\ h[cars[i]].progress % 2 = 0
                       THEN findBestNextStreet(locationId(1), locationId(3),
                                               h[cars[i]].street, streets, Locations,
                                               h[cars[i]].originalId, cache, random)
                       ELSE [decision |-> NoRoute, cache |-> cache]
             a == allocate(h, movedCar(h[cars[i]], i \in moving, routed.decision),
                           CarPool(side, carNumber(h[cars[i]].originalId)))
             rest == updateCarObjects(a.h, cars, i + 1, moving, routed.cache, random,
                                      side)
         IN [rest EXCEPT !.cars = <<a.ref>> \o @]

\* unnamed/part_001:364-372: car.counted = true on the objects simulateTraffic returned
markCounted(h, cars) ==
    [r \in Refs |->
        IF r \in RefsOf(cars) /\ h[r].reachedDestination /\ ~h[r].counted
        THEN [h[r] EXCEPT !.counted = TRUE] ELSE h[r]]

\* unnamed/part_001:216-239: a spread copy of every vehicle of App's array whose id is
\* no originalId in the panel
RECURSIVE syncCarObjects(_, _, _, _, _)
syncCarObjects(h, cars, app, i, side) ==
    IF i > Len(app) THEN [h |-> h, cars |-> cars]
    ELSE IF h[app[i]].id \in {h[r].originalId : r \in RefsOf(cars)}
    THEN syncCarObjects(h, cars, app, i + 1, side)
    ELSE LET a == allocate(h, [h[app[i]] EXCEPT !.id = <<side>> \o @,
                                                !.originalId = h[app[i]].id],
                           CarPool(side, i))
         IN syncCarObjects(a.h, Append(cars, a.ref), app, i + 1, side)

\* unnamed/part_001:456-548: the left panel sends a vehicle out of a parking lot: the
\* object createCar returned goes into App's array, a spread copy of it into localCars
spawnCarObjects(h, cars, app, side, spawns) ==
    IF side = "left" /\ spawns /\ Len(app) < MaxAppCars
    THEN LET newCar == allocate(h, [kind |-> "car",
                                    id |-> <<"car", Numerals[Len(app) + 1], "0">>,
                                    originalId |-> NullId, street |-> streetId(1),
                                    progress |-> 0,
                                    reachedDestination |-> FALSE, counted |-> FALSE],
                                AppPool(Len(app) + 1))
             localCar == allocate(newCar.h,
                                  [newCar.h[newCar.ref] EXCEPT
                                      !.id = <<side>> \o @,
                                      !.originalId = newCar.h[newCar.ref].id],
                                  CarPool(side, Len(app) + 1))
         IN [h |-> localCar.h, cars |-> Append(cars, localCar.ref),
             app |-> Append(app, newCar.ref)]
    ELSE [h |-> h, cars |-> cars, app |-> app]

\* the elements of a list at the positions given, in order
RECURSIVE keep(_, _)
keep(list, positions) ==
    IF list = <<>> THEN <<>>
    ELSE keep(SubSeq(list, 1, Len(list) - 1), positions) \o
         (IF Len(list) \in positions THEN <<list[Len(list)]>> ELSE <<>>)

\* the state a frame leaves, from the vehicles simulateTraffic returned to the sync
\* effect of the panel
afterFrame(side, updatedCars, stuck, spawns) ==
    \E kept \in {keep(updatedCars.cars,
                      {i \in DOMAIN updatedCars.cars :
                          ~(i \in stuck /\ ~updatedCars.h[updatedCars.cars[i]].reachedDestination)})} :
    \E spawned \in {spawnCarObjects(
                        collect(markCounted(updatedCars.h, updatedCars.cars),
                                [panelRefs EXCEPT ![side].localCars = kept], appCars),
                        kept, appCars, side, spawns)} :
    \E synced \in {syncCarObjects(spawned.h, spawned.cars, spawned.app, 1, side)} :
    \E refs \in {[panelRefs EXCEPT ![side].localCars = synced.cars]} :
        /\ panelRefs' = refs
        /\ appCars' = spawned.app
        /\ heap' = collect(synced.h, refs, spawned.app)
        /\ routingDecisions' = updatedCars.cache
        /\ writers' = [name \in SharedState |->
                         IF \/ name = "cars" /\ spawned.app # appCars
                            \/ name = "routingDecisions" /\ updatedCars.cache # routingDecisions
                         THEN writers[name] \cup {side} ELSE writers[name]]

\* unnamed/part_001:330-455: one frame of a panel: its lights, its vehicles, the removal
\* of stuck vehicles, the parking lots
panelFrame(side) ==
    /\ \E moving \in SUBSET DOMAIN panelRefs[side].localCars,
          stuck \in {{}} \cup {{i} : i \in DOMAIN panelRefs[side].localCars},
          spawns \in BOOLEAN, random \in 0..(RandomSteps - 1) :
          /\ (side = "left" /\ Len(appCars) < MaxAppCars) \/ ~spawns
          /\ (\E i \in moving : heap[panelRefs[side].localCars[i]].progress % 2 = 0)
                 \/ random = 0
          /\ afterFrame(side,
                        updateCarObjects(
                            updateLightObjects(heap, panelRefs[side].trafficLights),
                            panelRefs[side].localCars, 1, moving, routingDecisions,
                            random, side),
                        stuck, spawns)
    /\ lastFrame' = [ran |-> TRUE, side |-> side,
                     objects |-> [r \in heldBy(panelRefs, otherSide(side)) |-> heap[r]]]
    /\ UNCHANGED <<lightVars, streets, lastRoute, firstDecision, tickVars, carVars,
                   canvasLocations, drawnStreets, timers, twinVars>>

\* unnamed/part_001:242-324: the light effect of a panel whose intersection has no lights
lightObjectsEffect(side) ==
    /\ panelRefs[side].trafficLights = <<>>
    /\ \E made \in {createLights(heap, panelRefs, side, PanelLights)} :
          /\ heap' = made.h
          /\ panelRefs' = [panelRefs EXCEPT ![side].trafficLights = made.lights]
    /\ UNCHANGED <<lightVars, routeVars, tickVars, carVars, canvasLocations, drawnStreets,
                   timers, twinVars, appCars, lastFrame, writers>>

\* unnamed/part_001:216-239: the sync effect of a panel after App's array has changed
carObjectsEffect(side) ==
    /\ \E i \in DOMAIN appCars :
          heap[appCars[i]].id \notin
              {heap[r].originalId : r \in RefsOf(panelRefs[side].localCars)}
    /\ \E synced \in {syncCarObjects(heap, panelRefs[side].localCars, appCars, 1, side)} :
          /\ heap' = synced.h
          /\ panelRefs' = [panelRefs EXCEPT ![side].localCars = synced.cars]
    /\ UNCHANGED <<lightVars, routeVars, tickVars, carVars, canvasLocations, drawnStreets,
                   timers, twinVars, appCars, lastFrame, writers>>

InitObjects ==
    /\ streets = HubStreets
    /\ routingDecisions = <<>>
    /\ lastRoute = NoCall
    /\ firstDecision = <<>>
    /\ lightsIdle
    /\ updateQueue = NoUpdates
    /\ carsSaw = NothingRead
    /\ carsIdle
    /\ canvasLocations = {}
    /\ drawnStreets = {}
    /\ timers = {}
    /\ twins = <<>>
    /\ travelled = <<>>
    /\ heap = [r \in Refs |-> Free]
    /\ panelRefs = [side \in Sides |-> [localCars |-> <<>>, trafficLights |-> <<>>]]
    /\ appCars = <<>>
    /\ lastFrame = NoFrame
    /\ writers = [name \in SharedState |-> {}]

NextObjects ==
    \E side \in Sides :
        \/ panelFrame(side)
        \/ lightObjectsEffect(side)
        \/ carObjectsEffect(side)

SpecObjects == InitObjects /\ [][NextObjects]_vars

\* =================================================================
\*  Vehicles: a queue before the lights of a junction
\* =================================================================
\* The junction of the three streets at location 1; of its lights the vehicles read the
\* street and the state (carManager.js:570-577).  The states are those of a cycle: the
\* pair of streets 1 and 3 green, then yellow, then red with street 2 waiting
\* (trafficLightManager.js:366-376), then street 2 green, and all red between.
JamLightStates ==
    { <<"green", "red", "green">>, <<"yellow", "red", "yellow">>,
      <<"red", "waiting", "red">>, <<"waiting", "red", "waiting">>,
      <<"red", "green", "red">>, <<"red", "red", "red">> }

\* two vehicles one behind the other on street 1 or 2: the front one stands 10 or 25
\* pixels before the junction, the other one stands behind it or comes up at full speed,
\* as a vehicle does that enters a street at the entry mark behind a standing one
\* (carManager.js:788, 906); both have as much stopped time on their counters
JamScenes ==
    LET casts == {<<placed(s, TRUE, d * Pixel, 0, t,
                           IF s = 1 THEN locationId(3) ELSE locationId(2)),
                    placed(s, TRUE, (d + gap) * Pixel, v, t,
                           IF s = 1 THEN locationId(3) ELSE locationId(2))>> :
                     s \in {1, 2}, d \in {10, 25}, gap \in {20, 32}, v \in {0, SpeedScale},
                     t \in {1, 3 * TicksPerSecond + 1}}
    IN UNION {{[i \in 1..2 |->
                   [vehicle(i, cast[order[i]].street, cast[order[i]].direction,
                            cast[order[i]].progress, cast[order[i]].speed,
                            cast[order[i]].timeNotMoving, cast[order[i]].destinationId)
                       EXCEPT !.stops = cast[order[i]].stops,
                              !.streetsTraveled = cast[order[i]].streetsTraveled,
                              !.totalTravelTime = cast[order[i]].totalTravelTime]] :
                 order \in {<<1, 2>>, <<2, 1>>}} : cast \in casts}

InitJam ==
    /\ streets = HubStreets
    /\ routingDecisions = <<>>
    /\ lastRoute = NoCall
    /\ firstDecision = <<>>
    /\ \E states \in JamLightStates :
          trafficLights = [i \in 1..3 |-> [streetId |-> i, state |-> states[i]]]
    /\ isSmartControl = FALSE
    /\ lastSmartUpdate = -1
    /\ smartDecision = NoDecision
    /\ pendingForced = NoPending
    /\ pendingSwitch = NoSwitch
    /\ stays = <<>>
    /\ updateQueue = NoUpdates
    /\ carsSaw = NothingRead
    /\ localCars \in JamScenes
    /\ lastTick = NoTick
    /\ frames = 0
    /\ globalCars = [i \in DOMAIN localCars |-> globalCar(localCars[i])]
    /\ parkingLotCars = <<>>
    /\ metrics = NoMetrics
    /\ lastSpawn = NoSpawn
    /\ panelIdle

SpecJam == InitJam /\ [][setLocalCars]_vars

\* =================================================================
\*  Vehicles: the frames of a panel after a street of the corner was deleted
\* =================================================================
\* unnamed/part_001:976-980 handleStreetDelete filters the street out of the streets and
\* leaves the vehicles as they are: the scenes of the corner with one of the two streets
\* gone
InitGone ==
    /\ \E gone \in DOMAIN CornerStreets :
          streets = SelectSeq(CornerStreets, LAMBDA s : s.id # CornerStreets[gone].id)
    /\ routingDecisions = <<>>
    /\ lastRoute = NoCall
    /\ firstDecision = <<>>
    /\ lightsIdle
    /\ updateQueue = NoUpdates
    /\ carsSaw = NothingRead
    /\ localCars \in CarScenes
    /\ lastTick = NoTick
    /\ frames = 0
    /\ globalCars = [i \in DOMAIN localCars |-> globalCar(localCars[i])]
    /\ parkingLotCars = <<>>
    /\ metrics = NoMetrics
    /\ lastSpawn = NoSpawn
    /\ panelIdle

SpecGone == InitGone /\ [][setLocalCars]_vars

\* =================================================================
\*  Twins on a graph that is edited while they travel
\* =================================================================
\* unnamed/part_001:976-980 one street of the intersection is deleted while the twins are
\* on their way; the routing cache is left as it is (carManager.js:287, 413-415)
\* street changes per twin on the edited graph
DetourLegs == 2

NextDetour ==
    \/ Len(streets) = Len(HubStreets) /\ deleteStreet
    \/ \E side \in Sides : Len(travelled[side]) < DetourLegs /\ twinFrame(side)
SpecDetour == InitTwins /\ [][NextDetour]_vars

\* =================================================================
\*  Twins coming back to their parking lot
\* =================================================================
\* the three streets of the intersection and a fourth one between locations 3 and 4: the
\* only location left with a single street is location 2
RingStreets ==
    HubStreets \o <<[id |-> streetId(4), from |-> locationId(3), to |-> locationId(4)]>>

\* the twins later in their journey, on street 1 on the way back to the lot at location 2,
\* on either graph.  What the routing cache has kept of the way there plays no part at a
\* parking lot (carManager.js:753-803) and is left out.
InitLots ==
    /\ streets \in {HubStreets, RingStreets}
    /\ routingDecisions = <<>>
    /\ lastRoute = NoCall
    /\ firstDecision = <<>>
    /\ lightsIdle
    /\ updateQueue = NoUpdates
    /\ carsSaw = NothingRead
    /\ carsIdle
    /\ canvasLocations = {}
    /\ drawnStreets = {}
    /\ timers = {}
    /\ \E destinationId \in {locationId(2), locationId(3)}, random \in 0..(RandomSteps - 1) :
          twins = [side \in Sides |->
                      [syncLocalCars(<<>>, <<createCar(1, locationId(2), destinationId,
                                                       streetId(1), "backward", random)>>)[1]
                          EXCEPT !.direction = "forward"]]
    /\ travelled = [side \in Sides |-> <<<<streetId(1), "forward">>>>]
    /\ heapIdle

SpecLots == InitLots /\ [][NextTwins]_vars

\* =================================================================
\*  Traffic lights on fixed timers, with frames that keep coming
\* =================================================================
\* unnamed/part_001:326-347 the animation loop asks for the next frame at the end of each
\* frame, so a frame is always taken in the end.  On fixed timers a frame always moves
\* the lights (trafficLightManager.js:215: every timer grows by the frame's deltaTime,
\* and is set back when the time of its state has run out, l.300-303), so "frames keep
\* coming" is weak fairness of the lights' moving.  The lengths of the stays are not
\* recorded here.
InitFixed ==
    /\ \E n \in 3..MaxStreets :
         \E streetAngles \in distinctBearings(n), jitter \in [1..n -> 0..MaxJitter] :
            trafficLights = createIntersectionTrafficLights(streetAngles, jitter)
    /\ isSmartControl = FALSE
    /\ lastSmartUpdate = -1
    /\ smartDecision = NoDecision
    /\ pendingForced = NoPending
    /\ pendingSwitch = NoSwitch
    /\ stays = <<>>
    /\ routeIdle
    /\ tickIdle

\* the values a light can take
LightValues ==
    [streetId : 1..MaxStreets,
     oppositeGroupId : {"opposite-0", "opposite-1", "north-south", "east-west"},
     state : {"green", "yellow", "red", "waiting"},
     timer : 0..TimerCap(FALSE),
     smartSwitchTarget : {Null}]

lightsMove == trafficLights' \in [DOMAIN trafficLights -> LightValues]
SpecFixed == InitFixed /\ [][frameLights]_vars /\ WF_trafficLights(lightsMove)

\* =================================================================
\*  Adaptive traffic lights, with frames that keep coming
\* =================================================================
\* As SpecFixed, in the adaptive mode, with every collection of approaching vehicles at
\* every evaluation.  A frame of the adaptive mode always moves the stamp of the last
\* evaluation (trafficLightManager.js:240-256: it is set at an evaluation, and its age
\* grows by the frame's deltaTime otherwise), and nothing else does, so "frames keep coming"
\* is weak fairness of the stamp's moving.
InitSmart ==
    /\ \E n \in 3..MaxStreets :
         \E streetAngles \in distinctBearings(n), jitter \in [1..n -> 0..MaxJitter] :
            trafficLights = createIntersectionTrafficLights(streetAngles, jitter)
    /\ isSmartControl = TRUE
    /\ lastSmartUpdate = -1
    /\ smartDecision = NoDecision
    /\ pendingForced = NoPending
    /\ pendingSwitch = NoSwitch
    /\ stays = <<>>
    /\ routeIdle
    /\ tickIdle

stampMoves == lastSmartUpdate' \in -1..SmartInterval
SpecSmart == InitSmart /\ [][frameLights]_vars /\ WF_lastSmartUpdate(stampMoves)

\* =================================================================
\*  Vehicles: speeds between rest and the preferred speed
\* =================================================================
\* the preferred speeds createCar draws with the default maximum (carManager.js:49)
PreferredSpeeds ==
    {createCarUnchecked(1, NullId, NullId, NullId, "forward", random).preferredSpeed :
        random \in 0..(RandomSteps - 1)}

\* the speeds of a vehicle with the preferred speed p: at rest, crawling below 0.1, half
\* way, and at its preferred speed
SpeedsUpTo(p) == {0, SpeedScale \div 20, p \div 2, p}

\* Two vehicles of the corner, each with a preferred speed as createCar draws it and a
\* speed up to it: the first nears the corner on street 1 (half a pixel, 10 or 40 pixels
\* short of it), the second comes up behind it or is about to reach the dead end of
\* street 2.
SpeedScenes ==
    LET first(pa) == {placed(1, TRUE, d, va, 1, locationId(3)) :
                         d \in {Pixel \div 2, 10 * Pixel, 40 * Pixel},
                         va \in SpeedsUpTo(pa)}
        second(a, pb) ==
            {placed(1, TRUE, distanceToEnd(a) + gap * Pixel, vb, 1, locationId(3)) :
                gap \in {20, 40}, vb \in SpeedsUpTo(pb)}
            \cup {placed(2, FALSE, Pixel \div 2, vb, 1, locationId(3)) :
                     vb \in SpeedsUpTo(pb)}
        cast(role, n, p) ==
            [vehicle(n, role.street, role.direction, role.progress, role.speed,
                     role.timeNotMoving, role.destinationId)
                EXCEPT !.preferredSpeed = p,
                       !.stops = role.stops,
                       !.streetsTraveled = role.streetsTraveled,
                       !.totalTravelTime = role.totalTravelTime]
    IN UNION {UNION {{<<cast(a, 1, pp[1]), cast(b, 2, pp[2])>> : b \in second(a, pp[2])} :
                        a \in first(pp[1])} :
                 pp \in PreferredSpeeds \X PreferredSpeeds}

InitSpeeds ==
    /\ streets = CornerStreets
    /\ routingDecisions = <<>>
    /\ lastRoute = NoCall
    /\ firstDecision = <<>>
    /\ lightsIdle
    /\ updateQueue = NoUpdates
    /\ carsSaw = NothingRead
    /\ localCars \in SpeedScenes
    /\ lastTick = NoTick
    /\ frames = 0
    /\ globalCars = [i \in DOMAIN localCars |-> globalCar(localCars[i])]
    /\ parkingLotCars = <<>>
    /\ metrics = NoMetrics
    /\ lastSpawn = NoSpawn
    /\ panelIdle

SpecSpeeds == InitSpeeds /\ [][setLocalCars]_vars

\* =================================================================
\*  Traffic lights: the lights made for an intersection
\* =================================================================
\* A panel without lights finds an intersection of three or four streets and makes its
\* lights (unnamed/part_001:242-324); the streets leave in any of the bearings, two of
\* them in the same one where two neighbours lie in line.
InitGroups == lightsIdle /\ routeIdle /\ tickIdle

placeLights ==
    /\ trafficLights = <<>>
    /\ \E n \in 3..MaxStreets :
         \E streetAngles \in [1..n -> Bearings], jitter \in [1..n -> 0..MaxJitter] :
            trafficLights' = createIntersectionTrafficLights(streetAngles, jitter)
    /\ UNCHANGED <<isSmartControl, lastSmartUpdate, smartDecision, pendingForced,
                   pendingSwitch, stays, routeVars, tickVars, carVars, panelVars>>

SpecGroups == InitGroups /\ [][placeLights]_vars

\* =================================================================
\*  Traffic lights: the first evaluation with many vehicles approaching
\* =================================================================
\* the most vehicles that approach the intersection at once
MaxCrowd == 101

\* the vehicles that approach at an evaluation: each arrives later than the one before
\* it, the last one, if any, on the second street and the others by turns on the first
\* and the third
Crowds ==
    {[k \in 1..n |-> [streetId |-> IF k > n - late THEN 2 ELSE IF k % 2 = 1 THEN 1 ELSE 3,
                      estimatedArrivalTime |-> k]] :
        n \in 0..MaxCrowd, late \in 0..1}

\* the lights of a crossing as the panel creates them, the adaptive mode switched on
InitCrowd ==
    /\ \E n \in 3..MaxStreets :
         \E jitter \in [1..n -> 0..MaxJitter] :
            trafficLights =
                createIntersectionTrafficLights(SubSeq(TickBearings, 1, n), jitter)
    /\ isSmartControl = TRUE
    /\ lastSmartUpdate = -1
    /\ smartDecision = NoDecision
    /\ pendingForced = NoPending
    /\ pendingSwitch = NoSwitch
    /\ stays = <<>>
    /\ routeIdle
    /\ tickIdle

\* unnamed/part_001:330-347 the frame of the first evaluation
firstEvaluation ==
    /\ lastSmartUpdate = -1
    /\ \E deltaTime \in 1..MaxDelta, cars \in Crowds :
          \E w \in {updateTrafficLights(trafficLights, lastSmartUpdate, deltaTime,
                                          isSmartControl, cars)} :
             /\ trafficLights' = w.lights
             /\ lastSmartUpdate' = w.age
             /\ smartDecision' = w.decision
             /\ pendingForced' = nextPending(pendingForced, w.decision, w.lights)
             /\ pendingSwitch' = nextSwitch(pendingSwitch, w.decision, w.lights)
             /\ stays' = nextStays(stays, trafficLights, w.lights, deltaTime)
             /\ UNCHANGED <<isSmartControl, routeVars, tickVars, carVars, panelVars>>

SpecCrowd == InitCrowd /\ [][firstEvaluation]_vars

going(state) == state \in {"green", "yellow"}

\* C1: at every tick boundary, in both modes, no two lights of one intersection whose
\* oppositeGroupId differ are both in a going state (green or yellow)
C1_NoConflictingGoing ==
    \A i, j \in DOMAIN trafficLights :
        trafficLights[i].oppositeGroupId # trafficLights[j].oppositeGroupId
            => ~(going(trafficLights[i].state) /\ going(trafficLights[j].state))

\* a switch has taken place in adaptive mode at a three-light intersection: a light outside
\* the group that started green is green
C1_Witness ==
    /\ isSmartControl
    /\ Len(trafficLights) = 3
    /\ \E i \in DOMAIN trafficLights :
          /\ trafficLights[i].state = "green"
          /\ trafficLights[i].oppositeGroupId # trafficLights[1].oppositeGroupId

GroupIds == {"opposite-0", "opposite-1", "north-south", "east-west"}

\* C4: in adaptive mode, after an evaluation at an intersection with no green light that
\* returns a forced switch, the targeted phase becomes green within a bounded number of
\* light updates (ForcedSwitchTicks of them)
C4_ForcedSwitchTurnsGreen ==
    pendingForced.ticks <= ForcedSwitchTicks

allRed == \A i \in DOMAIN trafficLights : trafficLights[i].state = "red"

strictlyHighest(g) ==
    /\ g \in DOMAIN smartDecision.pairScores
    /\ smartDecision.pairScores[g] > 0
    /\ \A h \in DOMAIN smartDecision.pairScores \ {g} :
          smartDecision.pairScores[h] < smartDecision.pairScores[g]

\* C8: in adaptive mode, when one phase is green at an evaluation and a different phase has
\* the strictly highest positive score, the decision is a SWITCH to that phase
C8_SwitchToStrictlyHighest ==
    \A g \in GroupIds :
        (/\ smartDecision.evaluated
         /\ Cardinality(smartDecision.greenBefore) = 1
         /\ g \notin smartDecision.greenBefore
         /\ strictlyHighest(g))
        => smartDecision.action = "SWITCH" /\ smartDecision.targetGroup = g

\* an evaluation with vehicles on both phases, the red one scoring strictly higher
C8_Witness ==
    \E g \in GroupIds :
        /\ smartDecision.evaluated
        /\ Cardinality(smartDecision.greenBefore) = 1
        /\ g \notin smartDecision.greenBefore
        /\ strictlyHighest(g)
        /\ \E c \in smartDecision.greenBefore : smartDecision.pairScores[c] > 0
        /\ smartDecision.targetGroup = g

\* C6: between two clears of the routing cache, a call of findBestNextStreet returns what
\* the first call since the clear with the same vehicle group id, location and previous
\* street returned, whichever panel calls and whatever was asked or edited in between
C6_SameKeySameDecision ==
    lastRoute.called => lastRoute.decision = firstDecision[lastRoute.asked]

\* a repeated question, asked right after the other panel asked for another key, at a
\* moment when computing afresh would have answered differently
C6_Witness ==
    /\ lastRoute.called
    /\ lastRoute.repeated
    /\ lastRoute.afterOther
    /\ \E random \in 0..(RandomSteps - 1) :
          computeRoute(lastRoute.asked[2], lastRoute.asked[3], streets, Locations, random)
              # lastRoute.decision

C5_CarsSeeUpdatedLights ==
    (carsSaw.read /\ ~updateQueue.lights /\ ~updateQueue.cars) =>
        carsSaw.states = [i \in DOMAIN trafficLights |-> trafficLights[i].state]

\* =================================================================
\*  Claims about the vehicles of a panel
\* =================================================================

\* C2: after every updateCar step, every vehicle whose reachedDestination is false has a
\* progress strictly greater than 0 and strictly less than 1
C2_ProgressStrictlyInside ==
    lastTick.ran =>
        \A i \in DOMAIN lastTick.after :
            ~lastTick.after[i].reachedDestination =>
                /\ lastTick.after[i].progress > 0
                /\ lastTick.after[i].progress < ProgressScale

\* the progress of a vehicle that covers what its new speed covers in the tick
carried(old, new, deltaTime) ==
    IF old.direction = "forward" THEN old.progress + new.speed * deltaTime
    ELSE old.progress - new.speed * deltaTime

\* C10 (as amended): in a tick in which collision avoidance forces a vehicle's target
\* speed to 0, the vehicle keeps its currentStreetId and its direction, and its progress
\* moves by exactly what its new speed covers in the tick (speed * deltaTime * 0.08), so
\* that it is unchanged only once the vehicle has come to rest
C10_HeldVehicleStaysOnItsStreet ==
    lastTick.ran =>
        \A i \in DOMAIN lastTick.before :
            lastTick.notes[i].collisionStop =>
                /\ lastTick.after[i].currentStreetId = lastTick.before[i].currentStreetId
                /\ lastTick.after[i].direction = lastTick.before[i].direction
                /\ lastTick.after[i].progress
                     = carried(lastTick.before[i], lastTick.after[i], lastTick.deltaTime)

\* a tick in which a vehicle held by collision avoidance is still rolling
C10_Witness ==
    /\ lastTick.ran
    /\ \E i \in DOMAIN lastTick.before :
          /\ lastTick.notes[i].collisionStop
          /\ lastTick.after[i].speed > 0
          /\ lastTick.after[i].progress # lastTick.before[i].progress

\* C10 as stated: in a tick in which collision avoidance forces a vehicle's target speed
\* to 0, currentStreetId, direction and progress are the same after the tick as before
C10_HeldVehicleDoesNotMove ==
    lastTick.ran =>
        \A i \in DOMAIN lastTick.before :
            lastTick.notes[i].collisionStop =>
                /\ lastTick.after[i].currentStreetId = lastTick.before[i].currentStreetId
                /\ lastTick.after[i].direction = lastTick.before[i].direction
                /\ lastTick.after[i].progress = lastTick.before[i].progress

\* two vehicles block each other: both at rest for more than 3 s, bounding boxes
\* overlapping
mutuallyBlocked(car, otherCar) ==
    /\ car.id # otherCar.id
    /\ ~car.reachedDestination /\ ~otherCar.reachedDestination
    /\ car.speed = 0 /\ otherCar.speed = 0
    /\ car.timeNotMoving > 3 * TicksPerSecond
    /\ otherCar.timeNotMoving > 3 * TicksPerSecond
    /\ analyzeCarCollision(car, otherCar, streets, Locations).isColliding

\* the one of two vehicles that the documented rule lets go: the higher priority score
\* without the random term, or the smaller identifier on equal scores
hasPriority(car, otherCar) ==
    shouldProceed(car, otherCar, calculateDeadlockPriority(car, streets, 0),
                  calculateDeadlockPriority(otherCar, streets, 0))

\* C9: of two vehicles that mutually block each other, in a tick without jitter, exactly
\* one is granted the deadlock override: the one with the higher priority score, or on
\* equal scores the one with the smaller identifier; the other one is not released
C9_ExactlyOneGranted ==
    (lastTick.ran /\ lastTick.jitter = <<0, 0>>) =>
        \A i, j \in DOMAIN lastTick.before :
            mutuallyBlocked(lastTick.before[i], lastTick.before[j]) =>
                /\ lastTick.notes[i].granted = hasPriority(lastTick.before[i], lastTick.before[j])
                /\ lastTick.notes[j].granted = hasPriority(lastTick.before[j], lastTick.before[i])


\* =================================================================
\*  Claims about the lights of an edited canvas
\* =================================================================
\* the (location, street) pairs that should carry a light: every street connected to a
\* location of the canvas that has three or more streets
expectedLights ==
    { [locationId |-> l.id, streetId |-> connectedTo(streets, l.id)[i].id]
      : <<l, i>> \in { p \in canvasLocations \X (1..4) :
                         /\ Len(connectedTo(streets, p[1].id)) >= 3
                         /\ p[2] <= Len(connectedTo(streets, p[1].id)) } }

\* C11: once no rebuild callback is pending, the panel has exactly one light for every
\* (location, connected street) pair of the locations with three or more streets, and no
\* other light: none for a deleted street or location, none at a location with two
\* streets or fewer.
C11_LightsMatchStreets ==
    timers = {} =>
        /\ \A e \in expectedLights :
               Cardinality({i \in DOMAIN trafficLights : trafficLights[i] = e}) = 1
        /\ \A i \in DOMAIN trafficLights : trafficLights[i] \in expectedLights


\* =================================================================
\*  Claims about the light cycle
\* =================================================================
\* C14: in every tick the time-step applied to the light timers and the time-step applied
\* to the vehicles are both at most 0.1 s, whatever the gap between two frames: a timer
\* that runs on in its state grows by at most a fifth of half a second, and simulateTraffic
\* is given at most DeltaCap.
C14_TimeStepBounded ==
    [][/\ \A i \in DOMAIN trafficLights :
              (/\ trafficLights'[i].state = trafficLights[i].state
               /\ trafficLights'[i].timer > trafficLights[i].timer)
              => 5 * (trafficLights'[i].timer - trafficLights[i].timer) <= HalfSecond
       /\ lastTick'.ran => lastTick'.deltaTime <= DeltaCap]_vars

CycleEdges ==
    {<<"red", "waiting">>, <<"waiting", "green">>, <<"green", "yellow">>, <<"yellow", "red">>}

\* C18: across one light update, in both modes, every light's state is unchanged or has
\* moved along exactly one edge of red -> waiting -> green -> yellow -> red.
C18_OneEdgePerUpdate ==
    [][\A i \in DOMAIN trafficLights :
           \/ trafficLights'[i].state = trafficLights[i].state
           \/ <<trafficLights[i].state, trafficLights'[i].state>> \in CycleEdges]_vars

turnsGreen(j) ==
    trafficLights'[j].state = "green" /\ trafficLights[j].state # "green"

\* C19: in fixed mode a light turns green only from a tick boundary at which it was waiting
\* and no light of the intersection was green or yellow, and no update turns a light from
\* yellow to red and a light of another phase green.
C19_GapBeforeGreen ==
    [][~isSmartControl =>
          \A j \in DOMAIN trafficLights :
              turnsGreen(j) =>
                  /\ trafficLights[j].state = "waiting"
                  /\ \A k \in DOMAIN trafficLights :
                         /\ trafficLights[k].state \notin {"green", "yellow"}
                         /\ ~(/\ trafficLights[k].oppositeGroupId
                                     # trafficLights[j].oppositeGroupId
                              /\ trafficLights[k].state = "yellow"
                              /\ trafficLights'[k].state = "red")]_vars

\* C20: at every tick boundary all lights of the intersection that share an oppositeGroupId
\* are in the same state.
C20_GroupInOneState ==
    \A i, j \in DOMAIN trafficLights :
        trafficLights[i].oppositeGroupId = trafficLights[j].oppositeGroupId
            => trafficLights[i].state = trafficLights[j].state

\* two lights of a group have left green together, on timers that started apart
C20_Witness ==
    \E i, j \in DOMAIN trafficLights :
        /\ i # j
        /\ trafficLights[i].oppositeGroupId = trafficLights[j].oppositeGroupId
        /\ trafficLights[i].state = "yellow"
        /\ trafficLights[j].state = "yellow"
        /\ ~isSmartControl


\* =================================================================
\*  Claims about vehicles leaving the parking lots
\* =================================================================
\* C16: createCar returns null exactly when its start location, destination, start street
\* or direction is missing, and a vehicle otherwise; a spawn attempt that gets null adds no
\* vehicle to the panel or to the global set and leaves the lot's remaining count alone.
C16_NullSpawnAddsNothing ==
    [][lastSpawn'.attempt # lastSpawn.attempt =>
          /\ lastSpawn'.created <=>
                 /\ lastSpawn'.startLocationId \notin MissingIds
                 /\ lastSpawn'.destinationId \notin MissingIds
                 /\ lastSpawn'.startStreetId \notin MissingIds
                 /\ lastSpawn'.direction \notin MissingWords
          /\ lastSpawn'.created =>
                 /\ Len(localCars') = Len(localCars) + 1
                 /\ Len(globalCars') = Len(globalCars) + 1
          /\ ~lastSpawn'.created =>
                 UNCHANGED <<localCars, globalCars, parkingLotCars>>]_vars

\* a createCar call with an argument missing, after a call that yielded a vehicle
C16_Witness ==
    /\ lastSpawn.attempt > 1
    /\ ~lastSpawn.created
    /\ Len(globalCars) > 0


\* =================================================================
\*  Claims about the metrics of a panel
\* =================================================================
\* the vehicles a frame leaves in the panel: those simulateTraffic returned, less the stuck
activeAfterTick == SelectSeq(lastTick.after, LAMBDA car : ~isStuck(car))

\* C17: for a non-empty active set the metrics published by the tick satisfy
\* stopsPerCar = (sum of stops) / (number of vehicles), timeSpentWaiting = sum of
\* timeNotMoving, and averageTravelTime = (sum of totalTravelTime) / (sum of
\* streetsTraveled), or 0 when no street has been completed.
C17_MetricsAreTheSums ==
    (lastTick.ran /\ Len(activeAfterTick) > 0) =>
        LET active == activeAfterTick
            stops == SumOver([i \in DOMAIN active |-> active[i].stops], DOMAIN active)
            waiting == SumOver([i \in DOMAIN active |-> active[i].timeNotMoving],
                               DOMAIN active)
            travelTime == SumOver([i \in DOMAIN active |-> active[i].totalTravelTime],
                                  DOMAIN active)
            streetCount == SumOver([i \in DOMAIN active |-> active[i].streetsTraveled],
                                   DOMAIN active)
        IN /\ metrics.published
           /\ metrics.stopsPerCar[1] * Len(active) = stops * metrics.stopsPerCar[2]
           /\ metrics.timeSpentWaiting = waiting
           /\ IF streetCount > 0
              THEN metrics.averageTravelTime[1] * streetCount
                       = travelTime * metrics.averageTravelTime[2]
              ELSE metrics.averageTravelTime[1] = 0

\* metrics published for two or more vehicles, one of which has completed a street in
\* the tick and one of which has stopped before
C17_Witness ==
    /\ lastTick.ran
    /\ metrics.published
    /\ Len(activeAfterTick) >= 2
    /\ \E i \in DOMAIN lastTick.after :
           \E j \in DOMAIN lastTick.before :
               /\ lastTick.before[j].id = lastTick.after[i].id
               /\ lastTick.after[i].streetsTraveled > lastTick.before[j].streetsTraveled
    /\ \E i \in DOMAIN activeAfterTick : activeAfterTick[i].stops > 0


\* C15: once a vehicle has been removed from the panel's active set as stuck, no vehicle
\* with its originalId is in the panel's active set again: after a tick, none of the
\* vehicles the tick dropped has a namesake in the panel.
C15_RemovedStaysRemoved ==
    lastTick.ran =>
        \A i \in DOMAIN lastTick.after :
            isStuck(lastTick.after[i]) =>
                \A j \in DOMAIN localCars :
                    localCars[j].originalId # lastTick.after[i].originalId


\* =================================================================
\*  Claims about the twins
\* =================================================================
isPrefix(a, b) ==
    /\ Len(a) <= Len(b)
    /\ \A i \in 1..Len(a) : a[i] = b[i]

C12_FrameLeavesOtherPanel ==
    /\ lastFrame.ran =>
          \A r \in DOMAIN lastFrame.objects : heap[r] = lastFrame.objects[r]
    /\ \A name \in DOMAIN writers : writers[name] = Sides => name = "routingDecisions"

\* a frame of the left panel has run while the right panel held a light and a vehicle;
\* the left panel has changed a light of its own in place and marked a vehicle of its own
\* counted, and both panels have written the routing cache
C12_Witness ==
    /\ lastFrame.ran
    /\ lastFrame.side = "left"
    /\ \E r \in DOMAIN lastFrame.objects : heap[r].kind = "car"
    /\ \E r \in DOMAIN lastFrame.objects : heap[r].kind = "light"
    /\ \E r \in RefsOf(panelRefs["left"].trafficLights) : heap[r].state = "red"
    /\ \E r \in RefsOf(panelRefs["left"].localCars) : heap[r].counted
    /\ writers["routingDecisions"] = Sides

\* =================================================================
\*  Claims about the adaptive decision
\* =================================================================
\* the green phase g of the latest evaluation has a positive score that no phase exceeds
greenHoldsHighest(decision) ==
    /\ decision.evaluated
    /\ \E g \in decision.greenBefore :
          /\ decision.greenBefore = {g}
          /\ decision.pairScores[g] > 0
          /\ \A h \in DOMAIN decision.pairScores :
                decision.pairScores[h] <= decision.pairScores[g]

\* C22: in adaptive mode, an evaluation with a vehicle approaching and a green phase whose
\* score no other phase exceeds (an equal score included) decides NONE, and the update
\* changes the state of no light of the intersection.
C22_HighestGreenIsKept ==
    [][(isSmartControl /\ greenHoldsHighest(smartDecision'))
          => /\ smartDecision'.action = "NONE"
             /\ \A i \in DOMAIN trafficLights :
                   trafficLights'[i].state = trafficLights[i].state]_vars

lightsOfGroup(g) == {i \in DOMAIN trafficLights : trafficLights[i].oppositeGroupId = g}

C30_FixedDurations ==
    \A i \in DOMAIN stays :
        (stays[i].changes >= CycleChanges /\ ~stays[i].coarse)
            => Abs(stays[i].lastLength - cycleDuration(stays[i].lastState, FALSE)) <= 1


\* C23: in a tick in which the deadlock override is granted to a vehicle, the target speed
\* the tick ends up with for it is its preferred speed and the vehicle is not held,
\* whatever the lights it faces show
C23_GrantedIgnoresLights ==
    lastTick.ran =>
        \A i \in DOMAIN lastTick.notes :
            lastTick.notes[i].granted =>
                /\ lastTick.notes[i].targetSpeed = lastTick.before[i].preferredSpeed
                /\ ~lastTick.notes[i].shouldStop


\* two vehicles on different streets that both head for location 1
feedSameIntersection(car, otherCar) ==
    /\ car.currentStreetId # otherCar.currentStreetId
    /\ findStreet(streets, car.currentStreetId) # NoStreet
    /\ findStreet(streets, otherCar.currentStreetId) # NoStreet
    /\ arrivalLocation(findStreet(streets, car.currentStreetId), car.direction)
         = arrivalLocation(findStreet(streets, otherCar.currentStreetId), otherCar.direction)

\* C24: of two vehicles on different streets feeding the same intersection, the
\* cross-traffic rule forces the target speed of at most one to 0 in a tick
C24_OneOfTwoYields ==
    lastTick.ran =>
        \A i, j \in DOMAIN lastTick.before :
            (i # j /\ feedSameIntersection(lastTick.before[i], lastTick.before[j]))
                => ~(lastTick.notes[i].yielded /\ lastTick.notes[j].yielded)


\* carManager.js:680 isNowStopped, taken of the vehicle as a tick finds it
stationary(car) == car.speed < SpeedScale \div 10

\* C25: a vehicle that a tick removes as stuck has stood without interruption for longer
\* than the threshold; in particular it was standing when the tick began
C25_StuckStoodThroughout ==
    lastTick.ran =>
        \A i \in DOMAIN lastTick.after :
            isStuck(lastTick.after[i]) => stationary(lastTick.before[i])


\* C26: the deadlock override goes only to a vehicle that has stood without interruption
\* for more than 3 s up to the tick; in particular the vehicle stands when the tick begins
C26_GrantedStoodThroughout ==
    lastTick.ran =>
        \A i \in DOMAIN lastTick.notes :
            lastTick.notes[i].granted => stationary(lastTick.before[i])


\* the street of the vehicle is not a street of the graph
streetGone(car) == findStreet(streets, car.currentStreetId) = NoStreet

\* a tick marks every vehicle whose street is gone
goneIsMarked ==
    lastTick.ran =>
        \A i \in DOMAIN lastTick.before :
            streetGone(lastTick.before[i]) => lastTick.after[i].reachedDestination

\* a vehicle that an earlier tick marked for its missing street is not in the panel after
\* the clean-up of this tick
markedIsDropped ==
    lastTick.ran =>
        \A i \in DOMAIN lastTick.before :
            (streetGone(lastTick.before[i]) /\ lastTick.before[i].reachedDestination)
                => \A k \in DOMAIN localCars : localCars[k].id # lastTick.before[i].id

\* C27: a vehicle whose street no longer exists is marked reachedDestination by the next
\* tick, and it is out of the panel's vehicles after the clean-up of the tick that follows
C27_GoneStreetVehicleLeaves == goneIsMarked /\ markedIsDropped


\* the vehicle is 5 % of the street or less from the street's end at the location, and
\* heads away from it
entersAt(car, street, reached) ==
    /\ street # NoStreet
    /\ reached \in {street.from, street.to}
    /\ car.direction = IF street.from = reached THEN "forward" ELSE "backward"
    /\ car.progress > 0 /\ car.progress < ProgressScale
    /\ IF street.from = reached THEN 20 * car.progress <= ProgressScale
       ELSE 20 * (ProgressScale - car.progress) <= ProgressScale

\* a frame has taken the twin to another street or turned it round
transition(side) ==
    /\ Len(travelled'[side]) > Len(travelled[side])
    /\ ~twins'[side].reachedDestination

\* C28: after every street transition of updateCar the vehicle is on a street of the
\* current graph that ends at the location just reached, heads away from that location,
\* and its progress is strictly between 0 and 1 and within 0.05 of that end of the street
C28_TransitionEntersAtLocation ==
    [][\A side \in Sides :
          transition(side) =>
              entersAt(twins'[side], findStreet(streets', twins'[side].currentStreetId),
                       arrivalLocation(findStreet(streets, twins[side].currentStreetId),
                                       twins[side].direction))]_vars


\* the locations with exactly one street
parkingLots ==
    {l.id : l \in {p \in Locations :
                      Cardinality({i \in DOMAIN streets :
                                      streets[i].from = p.id \/ streets[i].to = p.id}) = 1}}

\* the location at the end of the street the twin is heading for
aheadOf(side) ==
    arrivalLocation(findStreet(streets, twins[side].currentStreetId), twins[side].direction)

\* the frame has run the end-of-street logic on the twin: a street is counted as
\* travelled (carManager.js:793, 911), or the vehicle is elsewhere or has arrived
arrived(side) ==
    \/ twins'[side].streetsTraveled # twins[side].streetsTraveled
    \/ twins'[side].currentStreetId # twins[side].currentStreetId
    \/ twins'[side].direction # twins[side].direction
    \/ twins'[side].reachedDestination # twins[side].reachedDestination

C31_EveryLightGreenAgain ==
    \A i \in 1..MaxStreets :
        []<>(i \in DOMAIN trafficLights => trafficLights[i].state = "green")


\* a light that was created red is green on fixed timers
C31_Witness ==
    /\ ~isSmartControl
    /\ stays = <<>>
    /\ \E i \in DOMAIN trafficLights :
          /\ trafficLights[i].oppositeGroupId # trafficLights[1].oppositeGroupId
          /\ trafficLights[i].state = "green"
          /\ trafficLights[1].state = "red"


\* the evaluation of this frame found no vehicle approaching the phase of light i
noneWaitingAt(i) ==
    /\ smartDecision.evaluated
    /\ smartDecision.pairScores[trafficLights[i].oppositeGroupId] = 0

\* C32: in the adaptive mode a phase that every evaluation finds a vehicle waiting at
\* becomes green in the end: again and again the light is green or an evaluation finds
\* nobody there
C32_WaitingPhaseGetsGreen ==
    \A i \in 1..MaxStreets :
        []<>(i \in DOMAIN trafficLights
                => (trafficLights[i].state = "green" \/ noneWaitingAt(i)))


\* =================================================================
\*  Claims about the waiting state, the routing memory, speeds and phases
\* =================================================================
\* the states of the lights that govern the vehicle: those of its street, at the end it is
\* heading for (carManager.js:570-576)
governing(car) ==
    {trafficLights[i].state :
        i \in {k \in DOMAIN trafficLights :
                  /\ lightStreetId(streets, trafficLights[k].streetId) = car.currentStreetId
                  /\ findStreet(streets, car.currentStreetId) # NoStreet
                  /\ arrivalLocation(findStreet(streets, car.currentStreetId),
                                     car.direction) = locationId(1)}}

\* closer to the intersection than 30% of the street (250 pixels), beyond the stop line at
\* 0.8 of the radius of the location's circle, and not inside the circle
inStoppingZone(car) ==
    /\ ~car.reachedDestination
    /\ 10 * distanceToEnd(car) < 3 * ProgressScale
    /\ 10 * distanceToEnd(car) > 8 * LOCATION_RADIUS
    /\ distanceToEnd(car) >= LOCATION_RADIUS

\* the vehicles of the stopping zone whose light shows the state end the tick with
\* target speed 0
heldWhile(state) ==
    lastTick.ran =>
        \A i \in DOMAIN lastTick.notes :
            (inStoppingZone(lastTick.before[i]) /\ state \in governing(lastTick.before[i]))
                => lastTick.notes[i].targetSpeed = 0

\* C33: a vehicle in the stopping zone before the intersection ends a tick with target
\* speed 0 when the light that governs its street is in the waiting state
C33_HeldWhileWaiting == heldWhile("waiting")

\* the same for a red light
HeldWhileRed == heldWhile("red")


\* the decision names a street of the list that touches the location
namesStreetAt(decision, streetList, currentLocationId) ==
    \E i \in DOMAIN streetList :
       /\ streetList[i].id = decision.street.id
       /\ currentLocationId \in {streetList[i].from, streetList[i].to}

\* C34: every decision that a call of findBestNextStreet returns names a street that is in
\* the street list passed to the call and has the location of the call as an endpoint,
\* whatever was deleted or loaded since an earlier call with the same key
C34_DecisionNamesPresentStreet ==
    [][(lastRoute' # lastRoute /\ lastRoute'.called /\ lastRoute'.decision # NoRoute)
          => namesStreetAt(lastRoute'.decision, streets, lastRoute'.asked[2])]_vars

\* the same for the calls that ask for a key for the first time since the cache was
\* cleared
FreshDecisionNamesPresentStreet ==
    [][(lastRoute' # lastRoute /\ lastRoute'.called /\ lastRoute'.decision # NoRoute
           /\ ~lastRoute'.repeated)
          => namesStreetAt(lastRoute'.decision, streets, lastRoute'.asked[2])]_vars


\* C35: after every updateCar step the speed of a vehicle that createCar made with the
\* default maximum speed is at least 0 and at most its preferredSpeed
C35_SpeedWithinPreferred ==
    lastTick.ran =>
        \A i \in DOMAIN lastTick.after :
            /\ lastTick.after[i].speed >= 0
            /\ lastTick.after[i].speed <= lastTick.after[i].preferredSpeed

\* a tick in which a vehicle slower than the maximum changed street at its preferred
\* speed, and one at rest before it picked up speed
C35_Witness ==
    /\ lastTick.ran
    /\ \E i \in DOMAIN lastTick.after :
          /\ lastTick.after[i].preferredSpeed < SpeedScale
          /\ lastTick.after[i].streetsTraveled > lastTick.before[i].streetsTraveled
          /\ lastTick.after[i].speed = lastTick.after[i].preferredSpeed
    /\ \E i \in DOMAIN lastTick.after :
          /\ lastTick.before[i].speed = 0
          /\ lastTick.after[i].speed > 0


\* one phase of the intersection is entirely green and every other light is red
settledOnOnePhase ==
    \E g \in {trafficLights[i].oppositeGroupId : i \in DOMAIN trafficLights} :
       \A i \in DOMAIN trafficLights :
          trafficLights[i].state
             = IF trafficLights[i].oppositeGroupId = g THEN "green" ELSE "red"

\* C36: in adaptive mode, when the intersection is settled with one phase entirely green
\* and every other light red, no light carries a smartSwitchTarget marker
C36_SettledWithoutMarker ==
    (isSmartControl /\ settledOnOnePhase) =>
        \A i \in DOMAIN trafficLights : trafficLights[i].smartSwitchTarget = Null


\* the lights of a phase group
lightsOf(groupId) ==
    {i \in DOMAIN trafficLights : trafficLights[i].oppositeGroupId = groupId}

\* C37: the lights that createIntersectionTrafficLights makes for 3 or 4 streets each have
\* a non-empty oppositeGroupId, and the groups are exactly two: two pairs of lights for 4
\* streets, a pair and a single light for 3 streets
C37_TwoPhaseGroups ==
    Len(trafficLights) \in {3, 4} =>
        LET groupIds == {trafficLights[i].oppositeGroupId : i \in DOMAIN trafficLights}
        IN /\ \A g \in groupIds : g \notin {Null, ""}
           /\ Cardinality(groupIds) = 2
           /\ {Cardinality(lightsOf(g)) : g \in groupIds}
                 = IF Len(trafficLights) = 4 THEN {2} ELSE {1, 2}

\* three lights, the first two paired although they are not opposite, the third alone in
\* its direction group
C37_Witness ==
    /\ Len(trafficLights) = 3
    /\ lastSmartUpdate = -1
    /\ trafficLights[1].oppositeGroupId = trafficLights[2].oppositeGroupId
    /\ trafficLights[3].oppositeGroupId = "east-west"


\* C38: however many vehicles approach, no phase score of an evaluation is negative (as
\* no vehicle's contribution 100 - rank and no street score is)
C38_ScoresNeverNegative ==
    smartDecision.evaluated =>
        \A g \in DOMAIN smartDecision.pairScores : smartDecision.pairScores[g] >= 0

====
